---- MODULE Spec2Model ----
(***************************************************************************)
(* Backtesting service of the trading desk                                 *)
(* (backend/services/backtesting_service.py).                              *)
(*                                                                         *)
(* run_backtest validates the request, fetches the price series, replays   *)
(* it through one of four strategies (RSI, MACD, moving-average crossover, *)
(* Bollinger bands), computes the metrics and returns a result record.     *)
(*                                                                         *)
(* Numbers.  Python floats are modelled as exact rationals [n, d] in       *)
(* lowest terms (d > 0); rounding error is not modelled.  NaN-able         *)
(* indicator values are sets: {} is NaN and {v} is the number v, so every  *)
(* comparison with NaN is false, as in IEEE arithmetic.                    *)
(*                                                                         *)
(* Indicators.  RSI, MACD and the Bollinger bands are computed by the      *)
(* external `ta` library; their per-bar values are inputs of the replay,   *)
(* drawn when the loop reads them.  The rolling means of the crossover     *)
(* strategy are computed from the closes.                                  *)
(*                                                                         *)
(* Optimizer (backend/agents/optimizer_agent.py).  The grid search         *)
(* (_parameter_sweep) and the genetic search (_genetic_optimization) are   *)
(* followed from one await of run_backtest to the next.  To them a         *)
(* backtest is a call that succeeds with an objective value, fails, or     *)
(* raises; every call is kept in `calls`.  Random draws are choices over   *)
(* the values the draw can give.                                           *)
(*                                                                         *)
(* The Bayesian search (_bayesian_optimization) is followed round by round; *)
(* Optuna is external: a study keeps its direction and, for every trial    *)
(* asked, the suggested params and the values told.  The walk-forward      *)
(* analysis (_walk_forward_analysis) is followed window by window and      *)
(* _optimize_strategy from the registration over the search it selects to  *)
(* the save and the return.                                                *)
(*                                                                         *)
(* Specifications.  Spec: run_backtest; SpecMetrics: the metrics           *)
(* calculators on arbitrary ledgers and curves; SpecGrid: one grid search; *)
(* SpecGenetic: one genetic search; SpecBayesian: one Bayesian search;     *)
(* SpecWalkForward: one walk-forward analysis; SpecRobustness: the         *)
(* robustness score on arbitrary statistics; SpecOptimize: one             *)
(* _optimize_strategy task; SpecCapital: RSI backtests over a wide price   *)
(* range; SpecWalkAnyStep: one walk-forward analysis with any step_size,   *)
(* under weak fairness of the loop's steps; SpecAgent: the life cycle of   *)
(* one agent (backend/agents/base_agent.py): start, stop, add_task, the    *)
(* manager's restart, and the main loops, interleaved at the awaits.       *)
(***************************************************************************)
EXTENDS Integers, Sequences, FiniteSets, TLC

(* ------------------------------ bounds --------------------------------- *)

\* longest price series (number of bars of df)
MaxBars == 5
\* number of run_backtest calls issued to the one service instance
MaxRuns == 2

(* ----------------------------- rationals ------------------------------- *)

Abs(x) == IF x < 0 THEN -x ELSE x

RECURSIVE Gcd(_, _)
Gcd(a, b) == IF b = 0 THEN a ELSE Gcd(b, a % b)

\* the rational n/d (d > 0) in lowest terms
Frac(n, d) ==
    LET g == Gcd(Abs(n), d) IN [n |-> n \div g, d |-> d \div g]

RInt(k) == [n |-> k, d |-> 1]

RAdd(a, b) ==
    LET g == Gcd(a.d, b.d)
        l == (a.d \div g) * b.d
    IN Frac(a.n * (l \div a.d) + b.n * (l \div b.d), l)

RNeg(a) == [n |-> -a.n, d |-> a.d]

RSub(a, b) == RAdd(a, RNeg(b))

RMul(a, b) ==
    LET g1 == Gcd(Abs(a.n), b.d)
        g2 == Gcd(Abs(b.n), a.d)
    IN Frac((a.n \div g1) * (b.n \div g2), (a.d \div g2) * (b.d \div g1))

\* a / b for b # 0
RDiv(a, b) ==
    IF b.n > 0 THEN RMul(a, [n |-> b.d, d |-> b.n])
    ELSE RMul(a, [n |-> -b.d, d |-> -b.n])

RLt(a, b) == RSub(a, b).n < 0
RLe(a, b) == RSub(a, b).n <= 0
RGt(a, b) == RLt(b, a)
RGe(a, b) == RLe(b, a)

(* ------------------------- NaN-able comparisons ------------------------ *)

NaN == {}
Val(v) == {v}

\* x < y, x <= y, ... on NaN-able rationals: false when either side is NaN
NLt(x, y) == \E a \in x, b \in y : RLt(a, b)
NLe(x, y) == \E a \in x, b \in y : RLe(a, b)
NGt(x, y) == NLt(y, x)
NGe(x, y) == NLe(y, x)

(* ------------------------------ registry ------------------------------- *)

None == [type |-> "NoneType"]

\* _load_strategies: the default of every declared parameter
strategies ==
    [ rsi_strategy |->
        [ rsi_period |-> 14, oversold_level |-> RInt(30),
          overbought_level |-> RInt(70),
          stop_loss |-> Frac(2, 100), take_profit |-> Frac(4, 100) ],
      macd_strategy |->
        [ fast_period |-> 12, slow_period |-> 26, signal_period |-> 9,
          stop_loss |-> Frac(25, 1000), take_profit |-> Frac(5, 100) ],
      ma_crossover |->
        [ fast_ma |-> 20, slow_ma |-> 50,
          stop_loss |-> Frac(3, 100), take_profit |-> Frac(6, 100) ],
      bollinger_bands |->
        [ period |-> 20, std_dev |-> RInt(2),
          stop_loss |-> Frac(2, 100), take_profit |-> Frac(4, 100) ] ]

(* ------------------------------- inputs -------------------------------- *)

\* closing prices of the bars
Prices == {25, 26}

\* strategy names a caller may send
StrategyNames == DOMAIN strategies \cup {"unknown_strategy"}

EmptyDict == [k \in {} |-> 0]
ShortWindows == [fast_ma |-> 1, slow_ma |-> 2]

\* the "parameters" entry of a request: a dict overriding some defaults, or
\* None (the optimizer sends best_params = None when no trial improved)
ParameterInputs(sn) ==
    CASE sn = "ma_crossover" -> {None, EmptyDict, ShortWindows}
      [] sn = "unknown_strategy" -> {EmptyDict}
      [] OTHER -> {None, EmptyDict}

RsiValues == {NaN, Val(RInt(20)), Val(RInt(50)), Val(RInt(80))}

MacdValues ==
    { [macd |-> NaN, signal |-> NaN] } \cup
    { [macd |-> Val(RInt(m)), signal |-> Val(RInt(0))] : m \in {-1, 0, 1} }

BollingerValues ==
    { [lower |-> NaN, middle |-> NaN],
      [lower |-> Val(RInt(25)), middle |-> Val(RInt(26))],
      [lower |-> Val(RInt(24)), middle |-> Val(RInt(27))] }

\* what the indicator library returns for one bar
IndicatorValues(sn) ==
    CASE sn = "rsi_strategy" -> { [rsi |-> v] : v \in RsiValues }
      [] sn = "macd_strategy" -> MacdValues
      [] sn = "bollinger_bands" -> BollingerValues
      [] OTHER -> { [unused |-> NaN] }

\* bar 0 is inside the warm-up of every indicator: the library returns NaN
WarmUpValues(sn) ==
    CASE sn = "rsi_strategy" -> { [rsi |-> NaN] }
      [] sn = "macd_strategy" -> { [macd |-> NaN, signal |-> NaN] }
      [] sn = "bollinger_bands" -> { [lower |-> NaN, middle |-> NaN] }
      [] OTHER -> { [unused |-> NaN] }
\* the value of the bar after one with value prev: the warm-up of an
\* indicator is a prefix of the series, NaN does not come back after it
FollowingValues(sn, prev) ==
    IF prev \in WarmUpValues(sn) THEN IndicatorValues(sn)
    ELSE IndicatorValues(sn) \ WarmUpValues(sn)

\* the close of bar 0: only the rolling means read it, so for the other
\* strategies one value stands for all
FirstCloses(sn) == IF sn = "ma_crossover" THEN Prices ELSE {25}

(* ------------------------------- state --------------------------------- *)

VARIABLES
    pc,               \* "idle", "execute", "replay", "metrics", "done"
    strategy_name,    \* request: strategy_name
    parameters,       \* request: parameters (dict or None)
    initial_capital,  \* request: initial_capital
    data_points,      \* len(df)
    df,               \* closes of the bars read so far, bar 0 first
    ind,              \* indicator values of the bars read so far
    params,           \* parameters merged with the defaults
    i,                \* loop index of the replay
    position,         \* None or the open position
    trades,           \* trade ledger
    equity_curve,     \* equity curve
    current_capital,  \* realized capital
    results,          \* what run_backtest returned, call by call
    opt_pc,             \* optimizer: "idle", "sweep", "evaluate", "breed",
                        \*   "final", "trial", "window", "backtest", "score",
                        \*   "scored",
                        \*   "returned", "raised"
    parameter_ranges,   \* request: parameter_ranges, in insertion order
    calls,              \* every run_backtest call of the search, in order
    oracle,             \* genetic: what run_backtest answers for each vector
    param_combinations, \* grid: the combinations to evaluate
    sweep_results,      \* grid: the results list of the successful combinations
    best_params,        \* grid, Bayesian: best parameters so far, or None
    best_value,         \* grid, Bayesian: best objective value so far
    population_size,    \* genetic request: population_size
    generations,        \* genetic request: generations
    population,         \* genetic: the current generation
    fitness_scores,     \* genetic: fitness of the individuals evaluated so far
    generation,         \* genetic: index of the current generation
    new_population,     \* genetic: the next generation while it is bred
    best_individual,    \* genetic: best individual so far, or None
    best_fitness,       \* genetic: best fitness so far
    generation_history, \* genetic: the statistics of the finished generations
    opt_result,         \* what the optimizer returned, or None
    search_request,     \* search request: strategy_name and objective, or None
    n_trials,           \* Bayesian request: n_trials
    study,              \* Bayesian: the Optuna study, or None
    trial_results,      \* Bayesian: the trial_results list
    window_request,     \* walk-forward request, or None
    current_date,       \* walk-forward: start of the next window
    window_calls,       \* walk-forward: every run_backtest call, in order
    window_results,     \* walk-forward: the results list
    aggregate_stats,    \* walk-forward: aggregate_statistics, or None
    agent_pc,           \* _optimize_strategy: "idle", "running", "returned",
                        \*   "raised"
    optimize_request,   \* _optimize_strategy: the task parameters, or None
    current_optimizations, \* agent: optimization_id -> record
    optimization_history,  \* agent: optimization_id -> record
    database,           \* rows stored by DatabaseManager.save_backtest_result
    task_result,        \* what _optimize_strategy returned, or None
    status,             \* BaseAgent: "idle", "working", "error", "stopped"
    is_running,         \* BaseAgent: is_running
    task_queue,         \* BaseAgent: the tasks waiting in task_queue
    current_task,       \* BaseAgent: current_task, or None
    main_loops,         \* BaseAgent: the _main_loop coroutines start() made
    tasks_created       \* number of tasks handed to add_task so far

backtest_vars ==
    << pc, strategy_name, parameters, initial_capital, data_points, df,
       ind, params, i, position, trades, equity_curve, current_capital,
       results >>

grid_vars == << param_combinations, sweep_results, best_params, best_value >>

genetic_vars ==
    << population_size, generations, population, fitness_scores, generation,
       new_population, best_individual, best_fitness, generation_history >>

study_vars == << n_trials, study, trial_results >>

walk_vars ==
    << window_request, current_date, window_calls, window_results,
       aggregate_stats >>

agent_vars ==
    << agent_pc, optimize_request, current_optimizations,
       optimization_history, database, task_result >>

base_vars ==
    << status, is_running, task_queue, current_task, main_loops,
       tasks_created >>

search_vars ==
    << opt_pc, parameter_ranges, calls, oracle, grid_vars, genetic_vars,
       opt_result, search_request, study_vars, walk_vars, agent_vars >>

optimizer_vars == << search_vars, base_vars >>

vars == << backtest_vars, optimizer_vars >>

request == << strategy_name, parameters, initial_capital, data_points >>
series == << df, ind >>
locals == << params, i, position, trades, equity_curve, current_capital >>

\* float('-inf'): compared through Greater, never used in arithmetic
NegInfinity == [n |-> -1, d |-> 0]

\* a > b on floats that may be float('-inf')
Greater(a, b) ==
    IF a = NegInfinity THEN FALSE
    ELSE IF b = NegInfinity THEN TRUE
    ELSE RGt(a, b)

\* no backtest is running
BacktestIdle ==
    /\ pc = "idle"
    /\ strategy_name = "" /\ parameters = None
    /\ initial_capital = RInt(0) /\ data_points = 0
    /\ df = << >> /\ ind = << >>
    /\ params = None /\ i = 0 /\ position = None
    /\ trades = << >> /\ equity_curve = << >> /\ current_capital = RInt(0)
    /\ results = << >>

\* no grid search is running
GridIdle ==
    /\ param_combinations = << >> /\ sweep_results = << >>
    /\ best_params = None /\ best_value = NegInfinity

\* no genetic search is running
GeneticIdle ==
    /\ population_size = 0 /\ generations = 0
    /\ population = << >> /\ fitness_scores = << >> /\ generation = 0
    /\ new_population = << >>
    /\ best_individual = None /\ best_fitness = NegInfinity
    /\ generation_history = << >>

\* no Bayesian search is running
StudyIdle == n_trials = 0 /\ study = None /\ trial_results = << >>

\* no walk-forward analysis is running
WalkIdle ==
    /\ window_request = None /\ current_date = None
    /\ window_calls = << >> /\ window_results = << >>
    /\ aggregate_stats = None

\* the agent after __init__: no optimization was asked for
AgentIdle ==
    /\ agent_pc = "idle" /\ optimize_request = None
    /\ current_optimizations = EmptyDict /\ optimization_history = EmptyDict
    /\ database = << >> /\ task_result = None

\* BaseAgent after __init__
BaseIdle ==
    /\ status = "idle" /\ is_running = FALSE
    /\ task_queue = << >> /\ current_task = None
    /\ main_loops = << >> /\ tasks_created = 0

\* no optimization is running
OptimizerIdle ==
    /\ opt_pc = "idle" /\ parameter_ranges = << >> /\ calls = << >>
    /\ oracle = << >>
    /\ GridIdle /\ GeneticIdle
    /\ opt_result = None
    /\ search_request = None
    /\ StudyIdle /\ WalkIdle /\ AgentIdle /\ BaseIdle

Init == BacktestIdle /\ OptimizerIdle

(* ------------------------- positions and trades ------------------------ *)

\* df.index[k]: the bars are hourly, so bar k is stamped k hours
Timestamp(k) == k

\* Timestamp.isoformat(): the text form stored in a trade
IsoFormat(t) == [iso |-> t]

\* OpenPosition sizing the order at 105% of the capital
OpenPosition_Leveraged(current_price, timestamp, capital, p) ==
    [ type |-> "LONG",
      entry_price |-> RInt(current_price),
      entry_time |-> timestamp,
      quantity |-> RDiv(RMul(capital, Frac(105, 100)), RInt(current_price)),
      stop_loss |-> RMul(RInt(current_price), RSub(RInt(1), p.stop_loss)),
      take_profit |-> RMul(RInt(current_price), RAdd(RInt(1), p.take_profit)) ]

\* OpenPosition sizing the order from the initial capital
OpenPosition_InitialCapital(current_price, timestamp, capital, p) ==
    [ type |-> "LONG",
      entry_price |-> RInt(current_price),
      entry_time |-> timestamp,
      quantity |-> RDiv(RMul(initial_capital, Frac(95, 100)),
                        RInt(current_price)),
      stop_loss |-> RMul(RInt(current_price), RSub(RInt(1), p.stop_loss)),
      take_profit |-> RMul(RInt(current_price), RAdd(RInt(1), p.take_profit)) ]

\* the position dict built on an entry signal
OpenPosition(current_price, timestamp, capital, p) ==
    [ type |-> "LONG",
      entry_price |-> RInt(current_price),
      entry_time |-> timestamp,
      quantity |-> RDiv(RMul(capital, Frac(95, 100)), RInt(current_price)),
      stop_loss |-> RMul(RInt(current_price), RSub(RInt(1), p.stop_loss)),
      take_profit |-> RMul(RInt(current_price), RAdd(RInt(1), p.take_profit)) ]

\* pnl = (current_price - position['entry_price']) * position['quantity']
Pnl(pos, current_price) ==
    RMul(RSub(RInt(current_price), pos.entry_price), pos.quantity)

\* CloseTrade stamping the exit with the bar of the entry
CloseTrade_EntryStamp(pos, current_price, timestamp, exit_reason) ==
    [ entry_time |-> IsoFormat(pos.entry_time),
      exit_time |-> IsoFormat(pos.entry_time),
      entry_price |-> pos.entry_price,
      exit_price |-> RInt(current_price),
      quantity |-> pos.quantity,
      pnl |-> Pnl(pos, current_price),
      pnl_pct |-> RMul(RDiv(Pnl(pos, current_price),
                            RMul(pos.entry_price, pos.quantity)), RInt(100)),
      exit_reason |-> exit_reason,
      duration_hours |-> timestamp - pos.entry_time ]

\* the trade dict built when a position is closed
CloseTrade(pos, current_price, timestamp, exit_reason) ==
    [ entry_time |-> IsoFormat(pos.entry_time),
      exit_time |-> IsoFormat(timestamp),
      entry_price |-> pos.entry_price,
      exit_price |-> RInt(current_price),
      quantity |-> pos.quantity,
      pnl |-> Pnl(pos, current_price),
      pnl_pct |-> RMul(RDiv(Pnl(pos, current_price),
                            RMul(pos.entry_price, pos.quantity)), RInt(100)),
      exit_reason |-> exit_reason,
      duration_hours |-> timestamp - pos.entry_time ]

\* AppendTrade inserting at the front of the ledger
AppendTrade_Front(ledger, trade) == << trade >> \o ledger

\* trades.append(trade)
AppendTrade(ledger, trade) == Append(ledger, trade)

\* NextCapital adding the price difference without the quantity
NextCapital_PriceDifference(signal, capital, pos, current_price) ==
    IF signal \in {"ENTER", "HOLD"} THEN capital
    ELSE RAdd(capital, RSub(RInt(current_price), pos.entry_price))

\* NextCapital paying the cost of the order out of the capital on entry
NextCapital_EntryCost(signal, capital, pos, current_price) ==
    IF signal = "ENTER" THEN RMul(capital, Frac(5, 100))
    ELSE IF signal = "HOLD" THEN capital
    ELSE RAdd(capital, RMul(RInt(current_price), pos.quantity))

\* current_capital after the bar: += pnl on an exit, unchanged otherwise
NextCapital(signal, capital, pos, current_price) ==
    IF signal \in {"ENTER", "HOLD"} THEN capital
    ELSE RAdd(capital, Pnl(pos, current_price))

(* ------------------------------ decisions ------------------------------ *)
(* What one loop iteration does: "ENTER", "HOLD", or the exit reason.      *)

\* RsiSignal entering without looking at the open position
RsiSignal_NoPositionCheck(pos, current_price, current_rsi, p) ==
    IF NLt(current_rsi, Val(p.oversold_level)) THEN "ENTER"
    ELSE IF pos # None THEN
        IF NGt(current_rsi, Val(p.overbought_level)) THEN "RSI_OVERBOUGHT"
        ELSE IF RLe(RInt(current_price), pos.stop_loss) THEN "STOP_LOSS"
        ELSE IF RGe(RInt(current_price), pos.take_profit) THEN "TAKE_PROFIT"
        ELSE "HOLD"
    ELSE "HOLD"

\* RsiSignal with the entry test written as "not (rsi >= level)"
RsiSignal_NaNEnters(pos, current_price, current_rsi, p) ==
    IF pos = None /\ ~ NGe(current_rsi, Val(p.oversold_level)) THEN "ENTER"
    ELSE IF pos # None THEN
        IF NGt(current_rsi, Val(p.overbought_level)) THEN "RSI_OVERBOUGHT"
        ELSE IF RLe(RInt(current_price), pos.stop_loss) THEN "STOP_LOSS"
        ELSE IF RGe(RInt(current_price), pos.take_profit) THEN "TAKE_PROFIT"
        ELSE "HOLD"
    ELSE "HOLD"

RsiSignal(pos, current_price, current_rsi, p) ==
    IF pos = None /\ NLt(current_rsi, Val(p.oversold_level)) THEN "ENTER"
    ELSE IF pos # None THEN
        IF NGt(current_rsi, Val(p.overbought_level)) THEN "RSI_OVERBOUGHT"
        ELSE IF RLe(RInt(current_price), pos.stop_loss) THEN "STOP_LOSS"
        ELSE IF RGe(RInt(current_price), pos.take_profit) THEN "TAKE_PROFIT"
        ELSE "HOLD"
    ELSE "HOLD"

\* MacdSignal entering on the current bar alone, whatever the previous bar
MacdSignal_CurrentBarOnly(pos, current_price, prev, cur) ==
    IF pos = None /\ NGt(cur.macd, cur.signal)
    THEN "ENTER"
    ELSE IF pos # None /\ NGe(prev.macd, prev.signal)
                       /\ NLt(cur.macd, cur.signal)
    THEN "MACD_SIGNAL"
    ELSE IF pos # None THEN
        IF RLe(RInt(current_price), pos.stop_loss) THEN "STOP_LOSS"
        ELSE IF RGe(RInt(current_price), pos.take_profit) THEN "TAKE_PROFIT"
        ELSE "HOLD"
    ELSE "HOLD"

MacdSignal(pos, current_price, prev, cur) ==
    IF pos = None /\ NLe(prev.macd, prev.signal) /\ NGt(cur.macd, cur.signal)
    THEN "ENTER"
    ELSE IF pos # None /\ NGe(prev.macd, prev.signal)
                       /\ NLt(cur.macd, cur.signal)
    THEN "MACD_SIGNAL"
    ELSE IF pos # None THEN
        IF RLe(RInt(current_price), pos.stop_loss) THEN "STOP_LOSS"
        ELSE IF RGe(RInt(current_price), pos.take_profit) THEN "TAKE_PROFIT"
        ELSE "HOLD"
    ELSE "HOLD"

RECURSIVE SumCloses(_, _, _)
\* closes[from] + ... + closes[to] (1-based, inclusive)
SumCloses(closes, from, to) ==
    IF from > to THEN 0 ELSE closes[to] + SumCloses(closes, from, to - 1)

\* df['close'].rolling(window).mean().iloc[k]: NaN until the window is full
RollingMean(closes, window, k) ==
    IF k + 1 < window THEN NaN
    ELSE Val(Frac(SumCloses(closes, k + 2 - window, k + 1), window))

MaCrossoverSignal(pos, closes, k, p) ==
    LET current_fast_ma == RollingMean(closes, p.fast_ma, k)
        current_slow_ma == RollingMean(closes, p.slow_ma, k)
        prev_fast_ma == RollingMean(closes, p.fast_ma, k - 1)
        prev_slow_ma == RollingMean(closes, p.slow_ma, k - 1)
    IN IF pos = None /\ NLe(prev_fast_ma, prev_slow_ma)
                     /\ NGt(current_fast_ma, current_slow_ma)
       THEN "ENTER"
       ELSE IF pos # None /\ NGe(prev_fast_ma, prev_slow_ma)
                          /\ NLt(current_fast_ma, current_slow_ma)
       THEN "MA_CROSSOVER"
       ELSE "HOLD"

BollingerSignal(pos, current_price, bands) ==
    IF pos = None /\ NLe(Val(RInt(current_price)), bands.lower) THEN "ENTER"
    ELSE IF pos # None /\ NGe(Val(RInt(current_price)), bands.middle)
    THEN "BB_MIDDLE"
    ELSE "HOLD"

(* ------------------------------- actions ------------------------------- *)

\* the error dict of run_backtest's except branch
Failure(sn) == [success |-> FALSE, strategy_name |-> sn]

\* run_backtest up to the call of _execute_strategy
BeginBacktest(sn, par, cap, n) ==
    /\ strategy_name' = sn /\ parameters' = par
    /\ initial_capital' = cap /\ data_points' = n
    /\ IF sn \notin DOMAIN strategies \/ n = 0
       THEN /\ pc' = "done"
            /\ results' = Append(results, Failure(sn))
       ELSE /\ pc' = "execute"
            /\ UNCHANGED results

RunBacktest ==
    /\ pc = "idle"
    /\ \E sn \in StrategyNames, n \in 0 .. MaxBars :
         \E par \in ParameterInputs(sn) :
            BeginBacktest(sn, par, RInt(1000), n)
    /\ UNCHANGED << series, locals, optimizer_vars >>

\* the caller sends the same request again; the market data is the same
RepeatBacktest ==
    /\ pc = "done"
    /\ Len(results) < MaxRuns
    /\ BeginBacktest(strategy_name, parameters, initial_capital, data_points)
    /\ UNCHANGED << series, locals, optimizer_vars >>

\* FreshReplay with a ledger that is kept from the previous call
FreshReplay_KeptLedger ==
    [ trades |-> trades, equity_curve |-> << initial_capital >>,
      current_capital |-> initial_capital, position |-> None ]

\* the locals every strategy function starts with
FreshReplay ==
    [ trades |-> << >>, equity_curve |-> << initial_capital >>,
      current_capital |-> initial_capital, position |-> None ]

\* _execute_strategy: merge the defaults and enter the strategy function;
\* any exception is answered with ([], [initial_capital])
ExecuteStrategy ==
    /\ pc = "execute"
    /\ IF parameters = None
       THEN /\ trades' = << >>
            /\ equity_curve' = << initial_capital >>
            /\ pc' = "metrics"
            /\ UNCHANGED << series, params, i, position, current_capital >>
       ELSE /\ params' = [ name \in DOMAIN strategies[strategy_name] |->
                             IF name \in DOMAIN parameters
                             THEN parameters[name]
                             ELSE strategies[strategy_name][name] ]
            /\ trades' = FreshReplay.trades
            /\ equity_curve' = FreshReplay.equity_curve
            /\ current_capital' = FreshReplay.current_capital
            /\ position' = FreshReplay.position
            /\ i' = 1
            /\ pc' = "replay"
            /\ IF Len(df) > 0 THEN UNCHANGED series
               ELSE \E close \in FirstCloses(strategy_name),
                       v \in WarmUpValues(strategy_name) :
                       /\ df' = << close >>
                       /\ ind' = << v >>
    /\ UNCHANGED << request, results, optimizer_vars >>

\* the loop reads bar i: a bar already fetched keeps its values
ReadBar(close, v) ==
    IF i < Len(df)
    THEN close = df[i + 1] /\ v = ind[i + 1] /\ UNCHANGED series
    ELSE df' = Append(df, close) /\ ind' = Append(ind, v)

\* the body of one loop iteration after the decision
Replay(signal, current_price, timestamp) ==
    /\ position' =
         IF signal = "ENTER"
         THEN OpenPosition(current_price, timestamp, current_capital, params)
         ELSE IF signal = "HOLD" THEN position ELSE None
    /\ trades' =
         IF signal \in {"ENTER", "HOLD"} THEN trades
         ELSE AppendTrade(trades,
                          CloseTrade(position, current_price, timestamp, signal))
    /\ current_capital' =
         NextCapital(signal, current_capital, position, current_price)
    /\ equity_curve' =
         Append(equity_curve,
                NextCapital(signal, current_capital, position, current_price))
    /\ i' = i + 1
    /\ UNCHANGED << pc, request, params, results, optimizer_vars >>

RsiBar ==
    /\ pc = "replay" /\ strategy_name = "rsi_strategy" /\ i < data_points
    /\ \E close \in Prices, v \in FollowingValues(strategy_name, ind[i]) :
         /\ ReadBar(close, v)
         /\ Replay(RsiSignal(position, close, v.rsi, params),
                   close, Timestamp(i))

MacdBar ==
    /\ pc = "replay" /\ strategy_name = "macd_strategy" /\ i < data_points
    /\ \E close \in Prices, v \in FollowingValues(strategy_name, ind[i]) :
         /\ ReadBar(close, v)
         /\ Replay(MacdSignal(position, close, ind[i], v),
                   close, Timestamp(i))

MaCrossoverBar ==
    /\ pc = "replay" /\ strategy_name = "ma_crossover" /\ i < data_points
    /\ \E close \in Prices, v \in FollowingValues(strategy_name, ind[i]) :
         /\ ReadBar(close, v)
         /\ Replay(MaCrossoverSignal(position, df', i, params),
                   close, Timestamp(i))

BollingerBar ==
    /\ pc = "replay" /\ strategy_name = "bollinger_bands" /\ i < data_points
    /\ \E close \in Prices, v \in FollowingValues(strategy_name, ind[i]) :
         /\ ReadBar(close, v)
         /\ Replay(BollingerSignal(position, close, v), close, Timestamp(i))

\* StrategyReturn closing the position that is still open at the last close
StrategyReturn_ForceClose ==
    /\ pc = "replay" /\ i >= data_points
    /\ pc' = "metrics"
    /\ IF position = None
       THEN UNCHANGED << trades, equity_curve, current_capital >>
       ELSE /\ trades' = Append(trades,
                  CloseTrade(position, df[Len(df)], Timestamp(i - 1),
                             "END_OF_DATA"))
            /\ current_capital' =
                  RAdd(current_capital, Pnl(position, df[Len(df)]))
            /\ equity_curve' =
                  [ equity_curve EXCEPT ![Len(equity_curve)] =
                      RAdd(current_capital, Pnl(position, df[Len(df)])) ]
    /\ UNCHANGED << request, series, params, i, position, results,
                    optimizer_vars >>

\* return trades, equity_curve
StrategyReturn ==
    /\ pc = "replay" /\ i >= data_points
    /\ pc' = "metrics"
    /\ UNCHANGED << request, series, locals, results, optimizer_vars >>

(* ------------------------------- metrics ------------------------------- *)

RECURSIVE SumPnl(_)
\* sum(t['pnl'] for t in ledger)
SumPnl(ledger) ==
    IF ledger = << >> THEN RInt(0)
    ELSE RAdd(SumPnl(SubSeq(ledger, 1, Len(ledger) - 1)),
              ledger[Len(ledger)].pnl)

IsWin(t) == t.pnl.n > 0
IsLoss(t) == t.pnl.n < 0

RMax(a, b) == IF RLt(a, b) THEN b ELSE a
RMin(a, b) == IF RLt(b, a) THEN b ELSE a

\* float('inf')
Infinity == [inf |-> TRUE]

RECURSIVE DrawdownScan_FirstPeak(_, _, _, _)
\* the drawdown loop from position k on, with the running peak and maximum
DrawdownScan_FirstPeak(curve, k, peak, max_drawdown) ==
    IF k > Len(curve) THEN max_drawdown
    ELSE LET drawdown == RDiv(RSub(peak, curve[k]), peak)
         IN DrawdownScan_FirstPeak(curve, k + 1, peak,
                                   RMax(max_drawdown, drawdown))

RECURSIVE DrawdownScan(_, _, _, _)
\* the drawdown loop from position k on, with the running peak and maximum
DrawdownScan(curve, k, peak, max_drawdown) ==
    IF k > Len(curve) THEN max_drawdown
    ELSE LET peak2 == IF RGt(curve[k], peak) THEN curve[k] ELSE peak
             drawdown == RDiv(RSub(peak2, curve[k]), peak2)
         IN DrawdownScan(curve, k + 1, peak2, RMax(max_drawdown, drawdown))

MaxDrawdown(curve) == DrawdownScan(curve, 1, curve[1], RInt(0))

RECURSIVE SumReturns(_, _)
\* sum of np.diff(curve) / curve[:-1] over the first k steps
SumReturns(curve, k) ==
    IF k = 0 THEN RInt(0)
    ELSE RAdd(SumReturns(curve, k - 1),
              RDiv(RSub(curve[k + 1], curve[k]), curve[k]))

\* mean(returns) / std(returns) * sqrt(252), or 0 when std is 0 or the curve
\* has one point; a non-zero ratio is irrational in general and is kept as the
\* mean return it is computed from
SharpeRatio(curve) ==
    IF Len(curve) > 1
       /\ \E k \in 1 .. Len(curve) - 1 :
             RDiv(RSub(curve[k + 1], curve[k]), curve[k])
               # RDiv(RSub(curve[2], curve[1]), curve[1])
    THEN [ mean |-> RDiv(SumReturns(curve, Len(curve) - 1),
                         RInt(Len(curve) - 1)),
           periods |-> 252 ]
    ELSE RInt(0)

RECURSIVE LargestPnl(_)
\* max([t['pnl'] for t in ledger]) of a non-empty ledger
LargestPnl(ledger) ==
    IF Len(ledger) = 1 THEN ledger[1].pnl
    ELSE RMax(ledger[1].pnl, LargestPnl(Tail(ledger)))

RECURSIVE SmallestPnl(_)
\* min([t['pnl'] for t in ledger]) of a non-empty ledger
SmallestPnl(ledger) ==
    IF Len(ledger) = 1 THEN ledger[1].pnl
    ELSE RMin(ledger[1].pnl, SmallestPnl(Tail(ledger)))

\* the dict returned for an empty trade list
ZeroMetrics_InfiniteProfitFactor ==
    [ total_trades |-> 0, total_return |-> RInt(0),
      total_return_pct |-> RInt(0), win_rate |-> RInt(0),
      profit_factor |-> Infinity, sharpe_ratio |-> RInt(0),
      max_drawdown |-> RInt(0), average_trade |-> RInt(0),
      largest_win |-> RInt(0), largest_loss |-> RInt(0) ]

\* the dict returned for an empty trade list
ZeroMetrics ==
    [ total_trades |-> 0, total_return |-> RInt(0),
      total_return_pct |-> RInt(0), win_rate |-> RInt(0),
      profit_factor |-> RInt(0), sharpe_ratio |-> RInt(0),
      max_drawdown |-> RInt(0), average_trade |-> RInt(0),
      largest_win |-> RInt(0), largest_loss |-> RInt(0) ]

\* ((final_capital - initial_capital) / initial_capital) * 100
TotalReturnPct_Fraction(final_capital, capital) ==
    RDiv(RSub(final_capital, capital), capital)

\* ((final_capital - initial_capital) / initial_capital) * 100
TotalReturnPct(final_capital, capital) ==
    RMul(RDiv(RSub(final_capital, capital), capital), RInt(100))

\* gross_profit / gross_loss if gross_loss > 0 else float('inf')
ProfitFactor_ZeroWithoutLoss(gross_profit, gross_loss) ==
    IF gross_loss.n > 0 THEN RDiv(gross_profit, gross_loss) ELSE RInt(0)

\* gross_profit / gross_loss if gross_loss > 0 else float('inf')
ProfitFactor(gross_profit, gross_loss) ==
    IF gross_loss.n > 0 THEN RDiv(gross_profit, gross_loss) ELSE Infinity

\* _calculate_metrics; an exception inside it is caught and its text returned:
\* a zero initial_capital divides by zero, an empty curve has no first value
CalculateMetrics(ledger, curve, capital) ==
    IF ledger = << >> THEN ZeroMetrics
    ELSE IF capital.n = 0 THEN [ error |-> "float division by zero" ]
    ELSE IF curve = << >> THEN [ error |-> "list index out of range" ]
    ELSE
      LET total_trades == Len(ledger)
          winning_trades == SelectSeq(ledger, IsWin)
          losing_trades == SelectSeq(ledger, IsLoss)
          total_pnl == SumPnl(ledger)
          final_capital == IF curve # << >> THEN curve[Len(curve)] ELSE capital
          gross_profit == SumPnl(winning_trades)
          gross_loss == LET l == SumPnl(losing_trades)
                        IN IF l.n < 0 THEN RNeg(l) ELSE l
      IN [ total_trades |-> total_trades,
           winning_trades |-> Len(winning_trades),
           losing_trades |-> Len(losing_trades),
           total_return |-> total_pnl,
           total_return_pct |-> TotalReturnPct(final_capital, capital),
           win_rate |-> Frac(Len(winning_trades), total_trades),
           profit_factor |-> ProfitFactor(gross_profit, gross_loss),
           sharpe_ratio |-> SharpeRatio(curve),
           max_drawdown |-> MaxDrawdown(curve),
           average_trade |-> RDiv(total_pnl, RInt(total_trades)),
           largest_win |-> LargestPnl(ledger),
           largest_loss |-> SmallestPnl(ledger),
           final_capital |-> final_capital ]

\* OptimizerAgent._analyze_trades: the trade statistics of a ledger
AnalyzeTrades(ledger) ==
    IF ledger = << >> THEN [ error |-> "No hay trades para analizar" ]
    ELSE
      LET winning_trades == SelectSeq(ledger, IsWin)
          losing_trades == SelectSeq(ledger, IsLoss)
      IN [ total_trades |-> Len(ledger),
           winning_trades |-> Len(winning_trades),
           losing_trades |-> Len(losing_trades),
           win_rate |-> Frac(Len(winning_trades), Len(ledger)),
           largest_win |-> IF winning_trades # << >>
                           THEN LargestPnl(winning_trades) ELSE RInt(0),
           largest_loss |-> IF losing_trades # << >>
                            THEN SmallestPnl(losing_trades) ELSE RInt(0),
           profit_factor |->
               IF losing_trades # << >>
               THEN RDiv(SumPnl(winning_trades),
                         LET l == SumPnl(losing_trades)
                         IN IF l.n < 0 THEN RNeg(l) ELSE l)
               ELSE Infinity ]

\* run_backtest after _execute_strategy returned: metrics and the result dict
FinishBacktest ==
    /\ pc = "metrics"
    /\ results' = Append(results,
         [ success |-> TRUE,
           strategy_name |-> strategy_name,
           initial_capital |-> initial_capital,
           final_capital |-> IF equity_curve # << >>
                             THEN equity_curve[Len(equity_curve)]
                             ELSE initial_capital,
           parameters |-> parameters,
           metrics |-> CalculateMetrics(trades, equity_curve, initial_capital),
           trades |-> trades,
           equity_curve |-> equity_curve,
           data_points |-> data_points ])
    /\ pc' = "done"
    /\ UNCHANGED << request, series, locals, optimizer_vars >>

Next ==
    \/ RunBacktest
    \/ RepeatBacktest
    \/ ExecuteStrategy
    \/ RsiBar
    \/ MacdBar
    \/ MaCrossoverBar
    \/ BollingerBar
    \/ StrategyReturn
    \/ FinishBacktest

Spec == Init /\ [][Next]_vars

(* ------------- the RSI replay on a series with large moves ------------- *)

\* closes of a series that moves by a factor of 40 within one bar
WidePrices == {1, 40}

\* run_backtest of the RSI strategy with its default parameters
RunRsiBacktest ==
    /\ pc = "idle"
    /\ \E n \in 1 .. MaxBars :
         BeginBacktest("rsi_strategy", EmptyDict, RInt(1000), n)
    /\ UNCHANGED << series, locals, optimizer_vars >>

\* one iteration of the RSI loop on that series
RsiBarWide ==
    /\ pc = "replay" /\ strategy_name = "rsi_strategy" /\ i < data_points
    /\ \E close \in WidePrices, v \in FollowingValues(strategy_name, ind[i]) :
         /\ ReadBar(close, v)
         /\ Replay(RsiSignal(position, close, v.rsi, params),
                   close, Timestamp(i))

NextCapitalRun ==
    \/ RunRsiBacktest
    \/ ExecuteStrategy
    \/ RsiBarWide
    \/ StrategyReturn
    \/ FinishBacktest

SpecCapital == Init /\ [][NextCapitalRun]_vars

(* ------------------ the metrics calculators called alone --------------- *)

MaxTrades == 2
MaxPoints == 3

\* the sequences over S of length at most n
SeqsUpTo(S, n) == UNION { [1 .. k -> S] : k \in 0 .. n }

\* ledgers of losing, flat and winning trades; equity curves of positive
\* values, the empty one included; capitals, zero included
PnlInputs == { [pnl |-> RInt(-1)], [pnl |-> RInt(0)], [pnl |-> RInt(2)] }
LedgerInputs == SeqsUpTo(PnlInputs, MaxTrades)
CurveInputs == SeqsUpTo({ RInt(1), RInt(2), RInt(3) }, MaxPoints)
CapitalInputs == { RInt(0), RInt(1), RInt(2) }

InitMetrics ==
    /\ pc = "call"
    /\ trades \in LedgerInputs
    /\ equity_curve \in CurveInputs
    /\ initial_capital \in CapitalInputs
    /\ strategy_name = "" /\ parameters = None /\ data_points = 0
    /\ df = << >> /\ ind = << >>
    /\ params = None /\ i = 0 /\ position = None
    /\ current_capital = RInt(0)
    /\ results = << >>
    /\ OptimizerIdle

\* _calculate_metrics(trades, equity_curve, initial_capital)
CallCalculateMetrics ==
    /\ pc = "call"
    /\ results' = << CalculateMetrics(trades, equity_curve, initial_capital) >>
    /\ pc' = "calculated"
    /\ UNCHANGED << request, series, locals, optimizer_vars >>

\* _analyze_trades(trades)
CallAnalyzeTrades ==
    /\ pc = "call"
    /\ results' = << AnalyzeTrades(trades) >>
    /\ pc' = "analyzed"
    /\ UNCHANGED << request, series, locals, optimizer_vars >>

NextMetrics ==
    \/ CallCalculateMetrics
    \/ CallAnalyzeTrades

SpecMetrics == InitMetrics /\ [][NextMetrics]_vars

(* ------------------- optimizer: the parameter domains ------------------ *)

MaxInt == 3
MaxVaried == 6

\* the ceiling of a non-negative rational
Ceil(a) == (a.n + a.d - 1) \div a.d

\* list(range(start, stop, step)) for a positive step
Range(start, stop, step) ==
    [ k \in 1 .. (IF stop > start THEN (stop - start + step - 1) \div step
                  ELSE 0) |-> start + (k - 1) * step ]

\* list(np.arange(start, stop, step)) for a positive step, in exact arithmetic
Arange(start, stop, step) ==
    [ k \in 1 .. (IF RGt(stop, start) THEN Ceil(RDiv(RSub(stop, start), step))
                  ELSE 0) |-> RAdd(start, RMul(RInt(k - 1), step)) ]

\* list(np.linspace(start, stop, num))
Linspace(start, stop, num) ==
    [ k \in 1 .. num |->
        RAdd(start, RDiv(RMul(RInt(k - 1), RSub(stop, start)), RInt(num - 1))) ]

\* param_range.get(key, default)
Get(param_range, key, default) ==
    IF key \in DOMAIN param_range THEN param_range[key] ELSE default

\* isinstance(param_range, dict): a list or tuple range is kept under "bounds"
IsDict(param_range) == "bounds" \notin DOMAIN param_range

\* param_range.get("type") == type
HasType(param_range, type) ==
    "type" \in DOMAIN param_range /\ param_range.type = type

\* the step of a float range: the declared one or a tenth of the width
FloatStep(param_range) ==
    Get(param_range, "step",
        RDiv(RSub(param_range.max, param_range.min), RInt(10)))

\* the values of one parameter that grid search enumerates
GridValues(param_range) ==
    IF ~IsDict(param_range)
    THEN Linspace(param_range.bounds[1], param_range.bounds[2], 10)
    ELSE IF HasType(param_range, "int")
    THEN Range(param_range.min, param_range.max + 1,
               Get(param_range, "step", 1))
    ELSE IF HasType(param_range, "float")
    THEN Arange(param_range.min,
                RAdd(param_range.max, FloatStep(param_range)),
                FloatStep(param_range))
    ELSE IF HasType(param_range, "categorical")
    THEN param_range.choices
    ELSE << Get(param_range, "default", 1) >>

\* np.arange raises for a zero step
GridValuesRaise(param_range) ==
    /\ IsDict(param_range) /\ HasType(param_range, "float")
    /\ FloatStep(param_range).n = 0

RECURSIVE Product_FirstFastest(_, _)
\* itertools.product with the first pool varying fastest
Product_FirstFastest(ranges, j) ==
    IF j = 0 THEN << EmptyDict >>
    ELSE LET prev == Product_FirstFastest(ranges, j - 1)
             pool == GridValues(ranges[j].range)
         IN [ k \in 1 .. Len(prev) * Len(pool) |->
                prev[((k - 1) % Len(prev)) + 1]
                  @@ (ranges[j].name :> pool[((k - 1) \div Len(prev)) + 1]) ]

RECURSIVE Product(_, _)
\* itertools.product over the value lists of the first j parameters, each
\* tuple zipped with the names: result = [x + [y] for x in result for y in pool]
Product(ranges, j) ==
    IF j = 0 THEN << EmptyDict >>
    ELSE LET prev == Product(ranges, j - 1)
             pool == GridValues(ranges[j].range)
         IN [ k \in 1 .. Len(prev) * Len(pool) |->
                prev[((k - 1) \div Len(pool)) + 1]
                  @@ (ranges[j].name :> pool[((k - 1) % Len(pool)) + 1]) ]

\* _generate_parameter_combinations
GenerateParameterCombinations(ranges) == Product(ranges, Len(ranges))

\* the ceiling on the number of combinations of one sweep
MaxCombinations == 1000

\* param_combinations[:1000] taken from the end instead
Truncate_KeepLast(combinations) ==
    IF Len(combinations) > MaxCombinations
    THEN SubSeq(combinations, Len(combinations) - MaxCombinations + 1,
                Len(combinations))
    ELSE combinations

\* if len(param_combinations) > 1000: param_combinations[:1000]
Truncate(combinations) ==
    IF Len(combinations) > MaxCombinations
    THEN SubSeq(combinations, 1, MaxCombinations)
    ELSE combinations

\* parameter ranges as the requests spell them
IntRange(min, max) == [type |-> "int", min |-> min, max |-> max]
IntStepRange(min, max, step) ==
    [type |-> "int", min |-> min, max |-> max, step |-> step]
FloatRange(min, max) == [type |-> "float", min |-> min, max |-> max]
FloatStepRange(min, max, step) ==
    [type |-> "float", min |-> min, max |-> max, step |-> step]
Categorical(choices) == [type |-> "categorical", choices |-> choices]
Named(name, param_range) == [name |-> name, range |-> param_range]

\* the parameter_ranges of the grid requests: the declared kinds of range
\* alone and combined, an empty dict, a float range of zero width, and one
\* domain above the ceiling
GridRequests ==
    { << Named("a", IntRange(1, MaxInt)), Named("b", IntRange(1, 2)) >>,
      << Named("a", IntStepRange(1, 5, 2)) >>,
      << Named("a", IntStepRange(1, 4, 2)) >>,
      << Named("stop_loss", FloatStepRange(Frac(1, 100), Frac(5, 100),
                                          Frac(2, 100))) >>,
      << Named("stop_loss", FloatStepRange(Frac(1, 100), Frac(5, 100),
                                          Frac(3, 100))) >>,
      << Named("take_profit", FloatRange(RInt(0), RInt(1))) >>,
      << Named("take_profit", FloatRange(RInt(1), RInt(1))) >>,
      << Named("mode", Categorical(<< "fast", "slow" >>)),
         Named("a", IntRange(1, 2)) >>,
      << Named("a", [bounds |-> << RInt(0), RInt(9) >>]) >>,
      << Named("a", [type |-> "bool", default |-> 5]) >>,
      << Named("a", [type |-> "bool"]) >>,
      << >>,
      << Named("a", IntRange(1, 36)), Named("b", IntRange(1, 28)) >> }

(* ------------------- optimizer: the Backtest Runner -------------------- *)

\* what a run_backtest call does for the optimizer: it returns success with
\* the objective value in its metrics, returns a failure, or raises
Succeeded(value) == [kind |-> "success", value |-> value]
Failed == [kind |-> "failure", value |-> RInt(0)]
Raised == [kind |-> "raise", value |-> RInt(0)]

\* the outcomes a call can have; a search of more than MaxVaried candidates
\* is followed with every backtest succeeding on the same value
BacktestOutcomes(candidates) ==
    IF candidates <= MaxVaried
    THEN { Succeeded(RInt(0)), Succeeded(Frac(1, 2)), Failed, Raised }
    ELSE { Succeeded(RInt(0)) }

\* the outcomes of a call for strategy sn: run_backtest returns a failure for
\* a strategy that is not in the registry
RunnerOutcomes(sn, candidates) ==
    IF sn \notin DOMAIN strategies THEN { Failed }
    ELSE BacktestOutcomes(candidates)

\* the strategy names of the search requests
SearchStrategies == { "rsi_strategy", "unknown_strategy" }

\* the objectives of the search requests
Objectives == { "sharpe_ratio", "max_drawdown" }

\* parameters.get("strategy_name") and parameters.get("objective") of a
\* search: of the task itself, or as _optimize_strategy passes them on
SearchRequests(objectives) ==
    IF agent_pc = "running"
    THEN { [ strategy_name |-> optimize_request.strategy_name,
             objective |-> optimize_request.objective ] }
    ELSE { [ strategy_name |-> sn, objective |-> o ] :
             sn \in SearchStrategies, o \in objectives }

\* one run_backtest call as the optimizer's history keeps it
Call(phase, p, outcome) ==
    [phase |-> phase, parameters |-> p, outcome |-> outcome]

(* ----------------------------- grid search ----------------------------- *)

\* position of rs[k] in sorted(rs, key=value, reverse=True): a larger value
\* comes first, and the sort is stable, so an equal value keeps its order
SortedPosition(rs, k) ==
    1 + Cardinality({ m \in 1..Len(rs) :
                        \/ RGt(rs[m].value, rs[k].value)
                        \/ m < k /\ ~RGt(rs[k].value, rs[m].value) })

\* sorted(results, key=value, reverse=True)[:n]
TopResults(rs, n) ==
    [ t \in 1..(IF n < Len(rs) THEN n ELSE Len(rs)) |->
        rs[CHOOSE k \in 1..Len(rs) : SortedPosition(rs, k) = t] ]

\* Improves with value >= best_value: an equal value replaces the best
Improves_OrEqual(value, best) == ~Greater(best, value)

\* value > best_value
Improves(value, best) == Greater(value, best)

\* _parameter_sweep up to the first backtest: generate, truncate, initialise
ParameterSweep ==
    /\ opt_pc = "idle"
    /\ \E ranges \in GridRequests :
         /\ parameter_ranges' = ranges
         /\ IF \E j \in 1 .. Len(ranges) : GridValuesRaise(ranges[j].range)
            THEN opt_pc' = "raised" /\ UNCHANGED param_combinations
            ELSE /\ opt_pc' = "sweep"
                 /\ param_combinations' =
                      Truncate(GenerateParameterCombinations(ranges))
    /\ search_request' \in SearchRequests(Objectives)
    /\ sweep_results' = << >>
    /\ best_params' = None
    /\ best_value' = NegInfinity
    /\ UNCHANGED << backtest_vars, base_vars, calls, oracle, genetic_vars, opt_result,
                    study_vars, walk_vars, agent_vars >>

\* one iteration of the loop over param_combinations
SweepCombination ==
    /\ opt_pc = "sweep"
    /\ Len(calls) < Len(param_combinations)
    /\ LET p == param_combinations[Len(calls) + 1]
       IN \E outcome \in RunnerOutcomes(search_request.strategy_name,
                                        Len(param_combinations)) :
            /\ calls' = Append(calls, Call("search", p, outcome))
            /\ IF outcome.kind = "success"
               THEN /\ sweep_results' =
                         Append(sweep_results,
                                [parameters |-> p, value |-> outcome.value])
                    /\ IF Improves(outcome.value, best_value)
                       THEN best_value' = outcome.value /\ best_params' = p
                       ELSE UNCHANGED << best_value, best_params >>
               ELSE UNCHANGED << sweep_results, best_value, best_params >>
    /\ UNCHANGED << backtest_vars, base_vars, opt_pc, parameter_ranges, oracle,
                    param_combinations, genetic_vars, opt_result,
                    search_request, study_vars, walk_vars, agent_vars >>

\* after the loop: the final backtest with best_params and the return value;
\* an exception of the final backtest is raised again
SweepReturn ==
    /\ opt_pc = "sweep"
    /\ Len(calls) = Len(param_combinations)
    /\ \E outcome \in RunnerOutcomes(search_request.strategy_name,
                                     Len(param_combinations)) :
         /\ calls' = Append(calls, Call("final", best_params, outcome))
         /\ IF outcome.kind = "raise"
            THEN opt_pc' = "raised" /\ UNCHANGED opt_result
            ELSE /\ opt_pc' = "returned"
                 /\ opt_result' =
                      [ method |-> "parameter_sweep",
                        best_parameters |-> best_params,
                        best_value |-> best_value,
                        total_combinations |-> Len(param_combinations),
                        successful_combinations |-> Len(sweep_results),
                        final_backtest |-> outcome,
                        top_results |-> TopResults(sweep_results, 10) ]
    /\ UNCHANGED << backtest_vars, base_vars, parameter_ranges, oracle, grid_vars,
                    genetic_vars, search_request, study_vars, walk_vars,
                    agent_vars >>

NextGrid ==
    \/ ParameterSweep
    \/ SweepCombination
    \/ SweepReturn

SpecGrid == Init /\ [][NextGrid]_vars

(* ---------------------------- genetic search --------------------------- *)

MaxGenerations == 2

\* the population sizes of the requests: too few for a tournament of 3, no
\* elite, one elite
PopulationSizes == { 2, 3, 4 }

\* the values a random draw for one parameter can give: randint(min, max + 1),
\* uniform(min, max) followed on two sample points, choice(choices)
RandomValues(param_range) ==
    IF ~IsDict(param_range)
    THEN { param_range.bounds[1],
           RDiv(RAdd(param_range.bounds[1], param_range.bounds[2]), RInt(2)) }
    ELSE IF HasType(param_range, "int")
    THEN param_range.min .. param_range.max
    ELSE IF HasType(param_range, "float")
    THEN { param_range.min,
           RDiv(RAdd(param_range.min, param_range.max), RInt(2)) }
    ELSE { param_range.choices[c] : c \in 1 .. Len(param_range.choices) }

\* the individuals a random initialisation can give
Individuals(ranges) ==
    LET names == { ranges[j].name : j \in 1 .. Len(ranges) }
        values == UNION { RandomValues(ranges[j].range) :
                            j \in 1 .. Len(ranges) }
    IN { f \in [names -> values] :
           \A j \in 1 .. Len(ranges) :
              f[ranges[j].name] \in RandomValues(ranges[j].range) }

\* the parameter_ranges of the genetic requests
GeneticRequests ==
    { << Named("a", IntRange(1, 2)) >>,
      << Named("stop_loss", FloatRange(RInt(0), RInt(1))) >> }

\* the fitness of a backtest: the objective value, 0 in place of -inf
Fitness_FailureAsZero(outcome) ==
    IF outcome.kind = "success" THEN outcome.value ELSE RInt(0)

\* the fitness of a backtest: the objective value, -inf for a failed one
Fitness(outcome) ==
    IF outcome.kind = "success" THEN outcome.value ELSE NegInfinity

\* the last individual evaluated always replaces the best
Fitter_Always(fitness, best) == TRUE

\* fitness > best_fitness
Fitter(fitness, best) == Greater(fitness, best)

\* the finite entries of fitness_scores
Finite(scores) == SelectSeq(scores, LAMBDA f : f # NegInfinity)

RECURSIVE MaxFitness(_)
\* max(fitness_scores) of a non-empty list
MaxFitness(scores) ==
    IF Len(scores) = 1 THEN scores[1]
    ELSE LET m == MaxFitness(Tail(scores))
         IN IF Greater(m, scores[1]) THEN m ELSE scores[1]

RECURSIVE MinFitness(_)
\* min of a non-empty list of finite values
MinFitness(scores) ==
    IF Len(scores) = 1 THEN scores[1]
    ELSE RMin(scores[1], MinFitness(Tail(scores)))

RECURSIVE SumFitness(_)
SumFitness(scores) ==
    IF scores = << >> THEN RInt(0)
    ELSE RAdd(scores[1], SumFitness(Tail(scores)))

\* the statistics of one generation; at least one fitness is finite
GenerationStats(g, scores) ==
    [ generation |-> g + 1,
      best_fitness |-> MaxFitness(scores),
      average_fitness |-> RDiv(SumFitness(Finite(scores)),
                               RInt(Len(Finite(scores)))),
      worst_fitness |-> MinFitness(Finite(scores)) ]

\* population_size // 4
EliteSize(size) == size \div 4

\* the index lists argsort could put first when sorting ascending
Elites_Worst(scores, size) ==
    { idx \in [1 .. size -> 1 .. Len(scores)] :
        /\ \A k, l \in 1 .. size : k # l => idx[k] # idx[l]
        /\ \A k \in 1 .. size, m \in 1 .. Len(scores) :
              (\A l \in 1 .. k : idx[l] # m)
                 => ~Greater(scores[idx[k]], scores[m]) }

\* np.argsort(fitness_scores)[::-1][:size]: indices by falling fitness; the
\* order among equal scores is left to the sort
Elites(scores, size) ==
    { idx \in [1 .. size -> 1 .. Len(scores)] :
        /\ \A k, l \in 1 .. size : k # l => idx[k] # idx[l]
        /\ \A k \in 1 .. size, m \in 1 .. Len(scores) :
              (\A l \in 1 .. k : idx[l] # m)
                 => ~Greater(scores[m], scores[idx[k]]) }

\* _tournament_selection: the individuals that win some draw of 3 distinct
\* indices; argmax takes the first of equal scores in the drawn order
TournamentSelection(pop, scores) ==
    { pop[w] : w \in { v \in 1 .. Len(scores) :
                        \E T \in SUBSET (1 .. Len(scores)) :
                           /\ Cardinality(T) = 3 /\ v \in T
                           /\ \A t \in T : ~Greater(scores[t], scores[v]) } }

\* _crossover: each key from one of the parents
Crossover(parent1, parent2) ==
    { [ name \in DOMAIN parent1 |->
          IF name \in from1 THEN parent1[name] ELSE parent2[name] ] :
        from1 \in SUBSET DOMAIN parent1 }

\* _mutate: a copy with any of the parameters drawn again
Mutate(individual, ranges) ==
    { [ name \in DOMAIN individual |->
          IF name \in mutated THEN draw[name] ELSE individual[name] ] :
        mutated \in SUBSET { ranges[j].name : j \in 1 .. Len(ranges) },
        draw \in Individuals(ranges) }

\* _genetic_optimization up to the first backtest: the random population
GeneticOptimization ==
    /\ opt_pc = "idle"
    /\ search_request' \in SearchRequests({ "sharpe_ratio" })
    /\ \E ranges \in GeneticRequests :
         /\ parameter_ranges' = ranges
         /\ population_size' \in PopulationSizes
         /\ generations' \in 0 .. MaxGenerations
         /\ population' \in [1 .. population_size' -> Individuals(ranges)]
         /\ oracle' \in [Individuals(ranges) ->
                            RunnerOutcomes(search_request'.strategy_name, 0)]
    /\ best_individual' = None
    /\ best_fitness' = NegInfinity
    /\ generation_history' = << >>
    /\ generation' = 0
    /\ fitness_scores' = << >>
    /\ opt_pc' = IF generations' = 0 THEN "final" ELSE "evaluate"
    /\ UNCHANGED << backtest_vars, base_vars, calls, grid_vars, new_population,
                    opt_result, study_vars, walk_vars, agent_vars >>

\* one backtest of the evaluation loop; an exception ends the search
EvaluateIndividual ==
    /\ opt_pc = "evaluate"
    /\ Len(fitness_scores) < Len(population)
    /\ LET individual == population[Len(fitness_scores) + 1]
           outcome == oracle[individual]
           fitness == Fitness(outcome)
       IN /\ calls' = Append(calls, Call("search", individual, outcome))
          /\ IF outcome.kind = "raise"
             THEN /\ opt_pc' = "raised"
                  /\ UNCHANGED << fitness_scores, best_fitness,
                                  best_individual >>
             ELSE /\ fitness_scores' = Append(fitness_scores, fitness)
                  /\ IF Fitter(fitness, best_fitness)
                     THEN /\ best_fitness' = fitness
                          /\ best_individual' = individual
                     ELSE UNCHANGED << best_fitness, best_individual >>
                  /\ UNCHANGED opt_pc
    /\ UNCHANGED << backtest_vars, base_vars, parameter_ranges, oracle, grid_vars,
                    population_size, generations, population, generation,
                    new_population, generation_history, opt_result,
                    search_request, study_vars, walk_vars, agent_vars >>

\* after the evaluation loop: the statistics, which raise when no fitness is
\* finite, and the elite that opens the next generation
EndGeneration ==
    /\ opt_pc = "evaluate"
    /\ Len(fitness_scores) = Len(population)
    /\ IF Finite(fitness_scores) = << >>
       THEN /\ opt_pc' = "raised"
            /\ UNCHANGED << generation_history, new_population, generation >>
       ELSE /\ generation_history' =
                 Append(generation_history,
                        GenerationStats(generation, fitness_scores))
            /\ IF generation < generations - 1
               THEN /\ \E idx \in Elites(fitness_scores,
                                         EliteSize(population_size)) :
                         new_population' =
                            [ k \in 1 .. EliteSize(population_size) |->
                                population[idx[k]] ]
                    /\ opt_pc' = "breed"
                    /\ UNCHANGED generation
               ELSE /\ opt_pc' = "final"
                    /\ generation' = generation + 1
                    /\ UNCHANGED new_population
    /\ UNCHANGED << backtest_vars, base_vars, parameter_ranges, calls, oracle, grid_vars,
                    population_size, generations, population, fitness_scores,
                    best_individual, best_fitness, opt_result,
                    search_request, study_vars, walk_vars, agent_vars >>

\* one iteration of the refill loop: two tournaments, crossover, mutation;
\* a tournament of 3 raises on a population of fewer than 3; the child that
\* fills the population starts the next generation
Breed ==
    /\ opt_pc = "breed"
    /\ Len(new_population) < population_size
    /\ IF Len(population) < 3
       THEN /\ opt_pc' = "raised"
            /\ UNCHANGED << population, new_population, fitness_scores,
                            generation >>
       ELSE \E parent1, parent2 \in
                   TournamentSelection(population, fitness_scores) :
              \E child \in Crossover(parent1, parent2) :
                \E mutated \in Mutate(child, parameter_ranges) :
                   IF Len(new_population) + 1 < population_size
                   THEN /\ new_population' = Append(new_population, mutated)
                        /\ UNCHANGED << opt_pc, population, fitness_scores,
                                        generation >>
                   ELSE /\ population' = Append(new_population, mutated)
                        /\ new_population' = << >>
                        /\ fitness_scores' = << >>
                        /\ generation' = generation + 1
                        /\ opt_pc' = "evaluate"
    /\ UNCHANGED << backtest_vars, base_vars, parameter_ranges, calls, oracle, grid_vars,
                    population_size, generations, best_individual,
                    best_fitness, generation_history, opt_result,
                    search_request, study_vars, walk_vars, agent_vars >>

\* position (from 0) of the first generation whose best is the overall best
ConvergenceGeneration(history, best, default) ==
    IF \E g \in 1 .. Len(history) : history[g].best_fitness = best
    THEN CHOOSE g \in 0 .. Len(history) - 1 :
            /\ history[g + 1].best_fitness = best
            /\ \A h \in 1 .. g : history[h].best_fitness # best
    ELSE default

\* after the last generation: the final backtest with best_individual and
\* the return value
GeneticReturn ==
    /\ opt_pc = "final"
    /\ \E outcome \in IF best_individual # None
                      THEN { oracle[best_individual] }
                      ELSE IF search_request.strategy_name
                                 \in DOMAIN strategies
                      THEN { Succeeded(RInt(0)), Failed }
                      ELSE { Failed } :
         /\ calls' = Append(calls, Call("final", best_individual, outcome))
         /\ IF outcome.kind = "raise"
            THEN opt_pc' = "raised" /\ UNCHANGED opt_result
            ELSE /\ opt_pc' = "returned"
                 /\ opt_result' =
                      [ method |-> "genetic_optimization",
                        best_parameters |-> best_individual,
                        best_fitness |-> best_fitness,
                        population_size |-> population_size,
                        generations |-> generations,
                        final_backtest |-> outcome,
                        generation_history |-> generation_history,
                        total_evaluations |-> population_size * generations,
                        convergence_generation |->
                            ConvergenceGeneration(generation_history,
                                                  best_fitness, generations) ]
    /\ UNCHANGED << backtest_vars, base_vars, parameter_ranges, oracle, grid_vars,
                    genetic_vars, search_request, study_vars, walk_vars,
                    agent_vars >>

NextGenetic ==
    \/ GeneticOptimization
    \/ EvaluateIndividual
    \/ EndGeneration
    \/ Breed
    \/ GeneticReturn

SpecGenetic == Init /\ [][NextGenetic]_vars

(* ---------------------------- Bayesian search -------------------------- *)

\* number of trials whose backtest outcome is followed freely
MaxTrials == 3

\* trial_results[-10:]
HistoryKept == 10

\* the values trial.suggest_int, suggest_float (followed on two sample points)
\* and suggest_categorical can give for one parameter; a dict of another type
\* gets no suggestion
SuggestedValues(param_range) ==
    IF ~IsDict(param_range)
    THEN { param_range.bounds[1],
           RDiv(RAdd(param_range.bounds[1], param_range.bounds[2]), RInt(2)) }
    ELSE IF HasType(param_range, "int")
    THEN param_range.min .. param_range.max
    ELSE IF HasType(param_range, "float")
    THEN { param_range.min,
           RDiv(RAdd(param_range.min, param_range.max), RInt(2)) }
    ELSE IF HasType(param_range, "categorical")
    THEN { param_range.choices[c] : c \in 1 .. Len(param_range.choices) }
    ELSE { }

\* the trial_params dicts one trial can be given
Suggestions(ranges) ==
    LET suggested == { j \in 1 .. Len(ranges) :
                         SuggestedValues(ranges[j].range) # { } }
        names == { ranges[j].name : j \in suggested }
        values == UNION { SuggestedValues(ranges[j].range) : j \in suggested }
    IN { f \in [names -> values] :
           \A j \in suggested :
              f[ranges[j].name] \in SuggestedValues(ranges[j].range) }

\* parameter_ranges and n_trials of the Bayesian requests: short searches over
\* three domains, and one search longer than the history that is returned
BayesianRequests ==
    { [ ranges |-> r, n_trials |-> n ] :
        r \in { << Named("a", IntRange(1, 2)) >>,
                << Named("stop_loss", [bounds |-> << RInt(0), RInt(1) >>]) >>,
                << Named("a", [type |-> "bool"]) >> },
        n \in 0 .. MaxTrials }
      \cup { [ ranges |-> << Named("a", IntRange(1, 1)) >>,
               n_trials |-> HistoryKept + 1 ] }

\* the outcomes of the backtest of trial number k: after MaxTrials trials
\* every backtest gives the same
TrialOutcomes(sn, k) ==
    RunnerOutcomes(sn, IF k <= MaxTrials THEN 0 ELSE MaxVaried + 1)

\* direction of optuna.create_study
Direction(objective) ==
    IF objective \in { "sharpe_ratio", "total_return", "win_rate" }
    THEN "maximize" ELSE "minimize"

\* what objective_function returns for a backtest that did not raise; the
\* value of a success is metrics[objective]
ObjectiveFunction(objective, outcome) ==
    IF outcome.kind # "success" THEN NegInfinity
    ELSE IF objective = "max_drawdown" THEN RNeg(outcome.value)
    ELSE outcome.value

\* study.ask() and the suggestions: a new trial with its params, nothing told
Ask(st, p) ==
    [st EXCEPT !.trials = Append(@, [params |-> p, told |-> << >>])]

\* study.tell(trial, value) for the trial asked last
Tell(st, value) ==
    [st EXCEPT !.trials[Len(st.trials)].told = Append(@, value)]

\* every trial replaces the best
Better_Always(value, best) == TRUE

\* value > best_value
Better(value, best) == Greater(value, best)

\* trial_results[-n:]
LastTrials(rs, n) ==
    SubSeq(rs, IF Len(rs) > n THEN Len(rs) - n + 1 ELSE 1, Len(rs))

\* _bayesian_optimization up to the first trial: the study and the locals
BayesianOptimization ==
    /\ opt_pc = "idle"
    /\ search_request' \in SearchRequests(Objectives)
    /\ \E req \in BayesianRequests :
         /\ parameter_ranges' = req.ranges
         /\ n_trials' = req.n_trials
    /\ study' = [ direction |-> Direction(search_request'.objective),
                  trials |-> << >> ]
    /\ best_params' = None
    /\ best_value' = NegInfinity
    /\ trial_results' = << >>
    /\ opt_pc' = "trial"
    /\ UNCHANGED << backtest_vars, base_vars, calls, oracle, param_combinations,
                    sweep_results, genetic_vars, opt_result, walk_vars,
                    agent_vars >>

\* one round of the loop: ask, evaluate, tell; an exception of the evaluation
\* is told as -inf and the loop goes on
RunTrial ==
    /\ opt_pc = "trial"
    /\ Len(study.trials) < n_trials
    /\ \E p \in Suggestions(parameter_ranges) :
         \E outcome \in TrialOutcomes(search_request.strategy_name,
                                      Len(study.trials) + 1) :
            LET value == ObjectiveFunction(search_request.objective, outcome)
            IN /\ calls' = Append(calls, Call("search", p, outcome))
               /\ IF outcome.kind = "raise"
                  THEN /\ study' = Tell(Ask(study, p), NegInfinity)
                       /\ UNCHANGED << trial_results, best_value,
                                       best_params >>
                  ELSE /\ study' = Tell(Ask(study, p), value)
                       /\ trial_results' =
                            Append(trial_results,
                                   [ trial_number |-> Len(study.trials) + 1,
                                     parameters |-> p,
                                     value |-> value ])
                       /\ IF Better(value, best_value)
                          THEN best_value' = value /\ best_params' = p
                          ELSE UNCHANGED << best_value, best_params >>
    /\ UNCHANGED << backtest_vars, base_vars, opt_pc, parameter_ranges, oracle,
                    param_combinations, sweep_results, genetic_vars,
                    opt_result, search_request, n_trials, walk_vars,
                    agent_vars >>

\* after the loop: the final backtest with best_params and the return value;
\* an exception of the final backtest is raised again
BayesianReturn ==
    /\ opt_pc = "trial"
    /\ Len(study.trials) = n_trials
    /\ \E outcome \in TrialOutcomes(search_request.strategy_name,
                                   n_trials + 1) :
         /\ calls' = Append(calls, Call("final", best_params, outcome))
         /\ IF outcome.kind = "raise"
            THEN opt_pc' = "raised" /\ UNCHANGED opt_result
            ELSE /\ opt_pc' = "returned"
                 /\ opt_result' =
                      [ method |-> "bayesian_optimization",
                        best_parameters |-> best_params,
                        best_value |-> best_value,
                        objective |-> search_request.objective,
                        n_trials |-> n_trials,
                        final_backtest |-> outcome,
                        trial_history |->
                            LastTrials(trial_results, HistoryKept),
                        optimization_summary |->
                          [ total_trials |-> n_trials,
                            successful_trials |->
                                Len(SelectSeq(trial_results,
                                       LAMBDA r : r.value # NegInfinity)),
                            improvement_over_trials |-> best_value ] ]
    /\ UNCHANGED << backtest_vars, base_vars, parameter_ranges, oracle, grid_vars,
                    genetic_vars, search_request, study_vars, walk_vars,
                    agent_vars >>

NextBayesian ==
    \/ BayesianOptimization
    \/ RunTrial
    \/ BayesianReturn

SpecBayesian == Init /\ [][NextBayesian]_vars

(* ------------------------- the robustness score ------------------------ *)

\* abs() of a float
RAbs(a) == IF a.n < 0 THEN RNeg(a) ELSE a

\* win rate: min(win_rate * 30, 30)
WinRatePoints(stats) ==
    RMin(RMul(Get(stats, "win_rate", RInt(0)), RInt(30)), RInt(30))

\* Sharpe consistency: max(0, 1 - sharpe_std / max(|avg_sharpe|, 0.1)) * 25,
\* added only when sharpe_std > 0
SharpeConsistencyPoints(stats) ==
    LET avg_sharpe == Get(stats, "average_sharpe", RInt(0))
        sharpe_std == Get(stats, "sharpe_std", RInt(1))
    IN IF RGt(sharpe_std, RInt(0))
       THEN RMul(RMax(RInt(0),
                      RSub(RInt(1),
                           RDiv(sharpe_std,
                                RMax(RAbs(avg_sharpe), Frac(1, 10))))),
                 RInt(25))
       ELSE RInt(0)

\* drawdown control without the floor at 0
DrawdownPoints_Unfloored(stats) ==
    RMul(RSub(RInt(1), Get(stats, "max_drawdown", RInt(1))), RInt(25))

\* drawdown control: max(0, 1 - max_drawdown) * 25
DrawdownPoints(stats) ==
    RMul(RMax(RInt(0), RSub(RInt(1), Get(stats, "max_drawdown", RInt(1)))),
         RInt(25))

\* positive average return: min(average_return * 100, 20)
ReturnPoints(stats) ==
    LET avg_return == Get(stats, "average_return", RInt(0))
    IN IF RGt(avg_return, RInt(0))
       THEN RMin(RMul(avg_return, RInt(100)), RInt(20))
       ELSE RInt(0)

\* _calculate_robustness_score(stats)
RobustnessScore(stats) ==
    IF stats = EmptyDict THEN RInt(0)
    ELSE RMin(RAdd(RAdd(WinRatePoints(stats), SharpeConsistencyPoints(stats)),
                   RAdd(DrawdownPoints(stats), ReturnPoints(stats))),
              RInt(100))

(* --------------------- the robustness score called alone --------------- *)

\* the aggregate statistics the score is called on: win rates inside and
\* outside [0, 1], negative and positive drawdowns and deviations, Sharpe
\* ratios below and above the 0.1 floor, no statistics at all
StatsInputs ==
    { [ win_rate |-> w, average_sharpe |-> a, sharpe_std |-> s,
        max_drawdown |-> m, average_return |-> r ] :
        w \in { RInt(0), Frac(1, 2), RInt(1), Frac(3, 2) },
        a \in { RInt(-2), RInt(0), Frac(1, 20), RInt(1) },
        s \in { Frac(-1, 2), RInt(0), Frac(1, 20), Frac(1, 2), RInt(3) },
        m \in { Frac(-1, 2), RInt(0), Frac(1, 2), RInt(2) },
        r \in { RInt(-1), RInt(0), Frac(1, 10), RInt(1) } }
      \cup { EmptyDict }

\* a caller about to score one set of statistics
InitRobustness ==
    /\ BacktestIdle
    /\ opt_pc = "score"
    /\ aggregate_stats \in StatsInputs
    /\ parameter_ranges = << >> /\ calls = << >> /\ oracle = << >>
    /\ GridIdle /\ GeneticIdle /\ StudyIdle /\ AgentIdle /\ BaseIdle
    /\ opt_result = None /\ search_request = None
    /\ window_request = None /\ current_date = None
    /\ window_calls = << >> /\ window_results = << >>

\* _calculate_robustness_score(aggregate_stats)
CallRobustnessScore ==
    /\ opt_pc = "score"
    /\ opt_pc' = "scored"
    /\ opt_result' = [ robustness_score |-> RobustnessScore(aggregate_stats) ]
    /\ UNCHANGED << backtest_vars, base_vars, parameter_ranges, calls, oracle, grid_vars,
                    genetic_vars, search_request, study_vars, walk_vars,
                    agent_vars >>

NextRobustness == CallRobustnessScore

SpecRobustness == InitRobustness /\ [][NextRobustness]_vars

(* ------------------------ walk-forward analysis ------------------------ *)

\* longest date range of a walk-forward request, in days
MaxDays == 4
\* days between datetime.min and the first day of the range
MaxDaysBefore == 2

\* number of windows whose backtest outcome is followed freely and kept in
\* window_calls: more than any range of MaxDays days holds
FollowedWindows == MaxDays + 1

\* a date string "%Y-%m-%d" is kept as the number of its day; a datetime has
\* the day and the seconds since midnight
DateString(day) == [date |-> day]

\* datetime.strptime(s, "%Y-%m-%d"): midnight of that day
Strptime(s) == [days |-> s.date, seconds |-> 0]

\* dt.strftime("%Y-%m-%d"): the time of day is dropped
Strftime(dt) == [date |-> dt.days]

\* dt + timedelta(days=k)
AddDays(dt, k) == [dt EXCEPT !.days = @ + k]

\* dt is not before datetime.min: an earlier date raises OverflowError
Representable(dt) == dt.days >= -MaxDaysBefore

\* a <= b on datetimes
NotAfter(a, b) ==
    a.days < b.days \/ (a.days = b.days /\ a.seconds <= b.seconds)

\* the metrics of a window's backtest, as far as the analysis reads them
WindowMetrics ==
    { [ total_return |-> RInt(2), sharpe_ratio |-> RInt(1),
        max_drawdown |-> Frac(1, 4) ],
      [ total_return |-> RInt(-1), sharpe_ratio |-> RInt(-1),
        max_drawdown |-> RInt(2) ],
      [ total_return |-> RInt(0), sharpe_ratio |-> RInt(0),
        max_drawdown |-> RInt(0) ] }

\* the outcomes of the backtest of a window after k earlier ones: after
\* FollowedWindows windows every backtest returns a failure
WindowOutcomes(sn, k) ==
    IF sn \notin DOMAIN strategies \/ k >= FollowedWindows THEN { Failed }
    ELSE { Succeeded(m) : m \in WindowMetrics } \cup { Failed, Raised }

\* the walk-forward requests: the range starts on day 0
WalkRequests ==
    { [ strategy_name |-> sn, parameters |-> p, window_size |-> w,
        step_size |-> st, start_date |-> DateString(0),
        end_date |-> DateString(e) ] :
        sn \in SearchStrategies, p \in { EmptyDict, [a |-> 1] },
        w \in 1 .. 3, st \in 1 .. 2, e \in -1 .. MaxDays }

\* walk-forward requests with any step_size: negative, zero, positive; the
\* window is shorter or longer than the range
AnyStepRequests ==
    { [ strategy_name |-> sn, parameters |-> EmptyDict, window_size |-> w,
        step_size |-> st, start_date |-> DateString(0),
        end_date |-> DateString(e) ] :
        sn \in SearchStrategies, w \in { 2, MaxDays + 1 }, st \in -1 .. 1,
        e \in { 1, MaxDays } }

RECURSIVE Total(_)
\* sum of a list of floats
Total(xs) == IF xs = << >> THEN RInt(0) ELSE RAdd(xs[1], Total(Tail(xs)))

\* np.mean of a non-empty list
Mean(xs) == RDiv(Total(xs), RInt(Len(xs)))

RECURSIVE IntegerRoot(_, _, _)
\* the largest k in lo .. hi with k * k <= n
IntegerRoot(n, lo, hi) ==
    IF lo = hi THEN lo
    ELSE LET mid == (lo + hi + 1) \div 2
         IN IF mid * mid <= n THEN IntegerRoot(n, mid, hi)
            ELSE IntegerRoot(n, lo, mid - 1)

\* the square root of a float >= 0: exact for the square of a rational, and
\* rounded down to a multiple of 1 / (100 * denominator) otherwise
Sqrt(a) ==
    LET scaled == a.n * a.d * 10000
    IN Frac(IntegerRoot(scaled, 0, 40000), a.d * 100)

\* np.std of a non-empty list: the population standard deviation
Std(xs) ==
    LET m == Mean(xs)
        squares == [ k \in 1 .. Len(xs) |->
                       RMul(RSub(xs[k], m), RSub(xs[k], m)) ]
    IN Sqrt(Mean(squares))

RECURSIVE Largest(_)
\* max of a non-empty list of floats
Largest(xs) ==
    IF Len(xs) = 1 THEN xs[1] ELSE RMax(xs[1], Largest(Tail(xs)))

\* the aggregate statistics of the windows that succeeded
AggregateStats(rs) ==
    IF rs = << >> THEN EmptyDict
    ELSE LET all_returns == [ k \in 1 .. Len(rs) |->
                                rs[k].metrics.total_return ]
             all_sharpe ==
                 SelectSeq([ k \in 1 .. Len(rs) |->
                               rs[k].metrics.sharpe_ratio ],
                           LAMBDA x : x # RInt(0))
             all_drawdowns == [ k \in 1 .. Len(rs) |->
                                  rs[k].metrics.max_drawdown ]
             positive == Len(SelectSeq(all_returns,
                                       LAMBDA x : RGt(x, RInt(0))))
         IN [ total_windows |-> Len(rs),
              average_return |-> Mean(all_returns),
              return_std |-> Std(all_returns),
              average_sharpe |->
                  IF all_sharpe # << >> THEN Mean(all_sharpe) ELSE RInt(0),
              sharpe_std |->
                  IF all_sharpe # << >> THEN Std(all_sharpe) ELSE RInt(0),
              average_drawdown |-> Mean(all_drawdowns),
              max_drawdown |-> Largest(all_drawdowns),
              positive_windows |-> positive,
              win_rate |-> Frac(positive, Len(rs)) ]

\* a window fits as soon as it starts inside the range
WindowFits_StartInside ==
    NotAfter(current_date, Strptime(window_request.end_date))

\* the window that starts at current_date still ends inside the range
WindowFits ==
    NotAfter(AddDays(current_date, window_request.window_size),
             Strptime(window_request.end_date))

\* _walk_forward_analysis up to the first window
WalkForwardAnalysis ==
    /\ opt_pc = "idle"
    /\ window_request' \in WalkRequests
    /\ current_date' = Strptime(window_request'.start_date)
    /\ window_results' = << >>
    /\ opt_pc' = "window"
    /\ UNCHANGED << backtest_vars, base_vars, parameter_ranges, calls, oracle, grid_vars,
                    genetic_vars, opt_result, search_request, study_vars,
                    window_calls, aggregate_stats, agent_vars >>

\* _walk_forward_analysis with a request of any step_size
WalkForwardAnalysisAnyStep ==
    /\ opt_pc = "idle"
    /\ window_request' \in AnyStepRequests
    /\ current_date' = Strptime(window_request'.start_date)
    /\ window_results' = << >>
    /\ opt_pc' = "window"
    /\ UNCHANGED << backtest_vars, base_vars, parameter_ranges, calls, oracle, grid_vars,
                    genetic_vars, opt_result, search_request, study_vars,
                    window_calls, aggregate_stats, agent_vars >>

\* the while test holds and the backtest of the window is awaited
RunWindow ==
    /\ opt_pc = "window"
    /\ WindowFits
    /\ opt_pc' = "backtest"
    /\ UNCHANGED << backtest_vars, base_vars, parameter_ranges, calls, oracle, grid_vars,
                    genetic_vars, opt_result, search_request, study_vars,
                    walk_vars, agent_vars >>

\* the rest of the iteration: the backtest answers, a success is appended
\* and current_date advances; an exception of the backtest or of the date
\* arithmetic ends the analysis
WindowResult ==
    /\ opt_pc = "backtest"
    /\ LET window_start == current_date
           window_end == AddDays(current_date, window_request.window_size)
           next_date == AddDays(current_date, window_request.step_size)
       IN \E outcome \in WindowOutcomes(window_request.strategy_name,
                                        Len(window_calls)) :
            /\ window_calls' =
                 IF Len(window_calls) >= FollowedWindows THEN window_calls
                 ELSE Append(window_calls,
                        [ strategy_name |-> window_request.strategy_name,
                          parameters |-> window_request.parameters,
                          start_date |-> Strftime(window_start),
                          end_date |-> Strftime(window_end),
                          outcome |-> outcome ])
            /\ IF outcome.kind = "raise"
               THEN /\ opt_pc' = "raised"
                    /\ UNCHANGED << window_results, current_date >>
               ELSE /\ window_results' =
                         IF outcome.kind = "success"
                         THEN Append(window_results,
                                     [ window_start |-> Strftime(window_start),
                                       window_end |-> Strftime(window_end),
                                       metrics |-> outcome.value ])
                         ELSE window_results
                    /\ IF Representable(next_date)
                       THEN current_date' = next_date /\ opt_pc' = "window"
                       ELSE opt_pc' = "raised" /\ UNCHANGED current_date
    /\ UNCHANGED << backtest_vars, base_vars, parameter_ranges, calls, oracle, grid_vars,
                    genetic_vars, opt_result, search_request, study_vars,
                    window_request, aggregate_stats, agent_vars >>

\* after the loop: the aggregate statistics and the return value
WalkForwardReturn ==
    /\ opt_pc = "window"
    /\ ~WindowFits
    /\ LET stats == AggregateStats(window_results)
       IN /\ aggregate_stats' = stats
          /\ opt_result' =
               [ method |-> "walk_forward_analysis",
                 strategy_name |-> window_request.strategy_name,
                 parameters |-> window_request.parameters,
                 window_size |-> window_request.window_size,
                 step_size |-> window_request.step_size,
                 window_results |-> window_results,
                 aggregate_statistics |-> stats,
                 robustness_score |-> RobustnessScore(stats) ]
    /\ opt_pc' = "returned"
    /\ UNCHANGED << backtest_vars, base_vars, parameter_ranges, calls, oracle, grid_vars,
                    genetic_vars, search_request, study_vars, window_request,
                    current_date, window_calls, window_results, agent_vars >>

NextWalkForward ==
    \/ WalkForwardAnalysis
    \/ RunWindow
    \/ WindowResult
    \/ WalkForwardReturn

SpecWalkForward == Init /\ [][NextWalkForward]_vars

NextWalkAnyStep ==
    \/ WalkForwardAnalysisAnyStep
    \/ RunWindow
    \/ WindowResult
    \/ WalkForwardReturn

\* the step of WalkForwardReturn as the control flow sees it
LeaveLoop == opt_pc = "window" /\ ~WindowFits /\ opt_pc' = "returned"

\* the analysis is a coroutine of the agent's event loop and run_backtest
\* answers every call: an iteration that can go on goes on, and the code
\* after the loop runs once the while test fails
SpecWalkAnyStep ==
    /\ Init /\ [][NextWalkAnyStep]_vars
    /\ WF_vars(RunWindow) /\ WF_vars(WindowResult) /\ WF_opt_pc(LeaveLoop)

(* ------------------------- _optimize_strategy -------------------------- *)

\* the _optimize_strategy requests: a missing strategy_name, a method that is
\* not supported; the grid and genetic searches are followed for one objective
OptimizeRequests ==
    { r \in [ strategy_name : SearchStrategies \cup { "" },
              method : { "bayesian", "genetic", "grid_search",
                         "random_search" },
              objective : Objectives ] :
        r.method = "bayesian" \/ r.objective = "sharpe_ratio" }

\* optimization_id: "opt_", the strategy name, the symbol and the second of
\* the call
OptimizationId(req) == << "opt", req.strategy_name >>

\* a + b where b may be float('-inf')
AddFloat(a, b) == IF b = NegInfinity THEN NegInfinity ELSE RAdd(a, b)

\* the row _save_optimization_results builds from the results
BacktestData(id, res) ==
    [ backtest_id |-> id,
      strategy_name |-> Get(res, "strategy_name", "unknown"),
      initial_capital |-> RInt(1000),
      final_capital |->
          AddFloat(RInt(1000), Get(res, "best_value", RInt(0))),
      total_return |-> Get(res, "best_value", RInt(0)),
      parameters |-> Get(res, "best_parameters", EmptyDict),
      detailed_results |-> res ]

\* a save whose exception reaches the caller
SaveOptimizationResults_Propagating(db, id, res, sink) ==
    IF sink = "stored"
    THEN [ raised |-> FALSE, database |-> Append(db, BacktestData(id, res)) ]
    ELSE [ raised |-> TRUE, database |-> db ]

\* _save_optimization_results: the row is stored, or the exception of the
\* sink is logged and swallowed
SaveOptimizationResults(db, id, res, sink) ==
    IF sink = "stored"
    THEN [ raised |-> FALSE, database |-> Append(db, BacktestData(id, res)) ]
    ELSE [ raised |-> FALSE, database |-> db ]

\* _optimize_strategy up to the call of the search: the check of
\* strategy_name, the registration, the dispatch on the method; the keys
\* "results" and "error" are kept as None until they are set
OptimizeStrategy ==
    /\ agent_pc = "idle" /\ opt_pc = "idle"
    /\ \E req \in OptimizeRequests :
         /\ optimize_request' = req
         /\ IF req.strategy_name = ""
            THEN /\ agent_pc' = "raised"
                 /\ UNCHANGED current_optimizations
            ELSE LET entry == [ strategy_name |-> req.strategy_name,
                                method |-> req.method,
                                status |-> "running",
                                results |-> None,
                                error |-> None ]
                     supported == req.method \in { "bayesian", "genetic",
                                                   "grid_search" }
                 IN /\ current_optimizations' =
                         [ id \in { OptimizationId(req) } |->
                             IF supported THEN entry
                             ELSE [entry EXCEPT !.status = "error",
                                                !.error = "ValueError"] ]
                    /\ agent_pc' = IF supported THEN "running" ELSE "raised"
    /\ UNCHANGED << backtest_vars, base_vars, opt_pc, parameter_ranges, calls, oracle,
                    grid_vars, genetic_vars, opt_result, search_request,
                    study_vars, walk_vars, optimization_history, database,
                    task_result >>

\* the search the method selects, step by step
SearchBayesian ==
    /\ agent_pc = "running" /\ optimize_request.method = "bayesian"
    /\ NextBayesian

SearchGenetic ==
    /\ agent_pc = "running" /\ optimize_request.method = "genetic"
    /\ NextGenetic

SearchGrid ==
    /\ agent_pc = "running" /\ optimize_request.method = "grid_search"
    /\ NextGrid

\* the search returned: the optimization is marked completed, put in the
\* history (the same dict as in current_optimizations), saved and returned
CompleteOptimization ==
    /\ agent_pc = "running" /\ opt_pc = "returned"
    /\ \E sink \in { "stored", "fails" } :
         LET id == OptimizationId(optimize_request)
             saved == SaveOptimizationResults(database, id, opt_result, sink)
             completed == [current_optimizations[id] EXCEPT
                              !.status = "completed", !.results = opt_result]
             failed == [completed EXCEPT !.status = "error",
                                         !.error = "Exception"]
         IN /\ database' = saved.database
            /\ IF saved.raised
               THEN /\ current_optimizations' = [ k \in { id } |-> failed ]
                    /\ optimization_history' = [ k \in { id } |-> failed ]
                    /\ agent_pc' = "raised"
                    /\ UNCHANGED task_result
               ELSE /\ current_optimizations' = [ k \in { id } |-> completed ]
                    /\ optimization_history' = [ k \in { id } |-> completed ]
                    /\ agent_pc' = "returned"
                    /\ task_result' =
                         [ optimization_id |-> id,
                           strategy_name |-> optimize_request.strategy_name,
                           method |-> optimize_request.method,
                           results |-> opt_result ]
    /\ UNCHANGED << backtest_vars, base_vars, opt_pc, parameter_ranges, calls, oracle,
                    grid_vars, genetic_vars, opt_result, search_request,
                    study_vars, walk_vars, optimize_request >>

\* the search raised: the optimization is marked as an error and the
\* exception is raised again
FailOptimization ==
    /\ agent_pc = "running" /\ opt_pc = "raised"
    /\ current_optimizations' =
         [ id \in DOMAIN current_optimizations |->
             [current_optimizations[id] EXCEPT !.status = "error",
                                               !.error = "Exception"] ]
    /\ agent_pc' = "raised"
    /\ UNCHANGED << backtest_vars, base_vars, opt_pc, parameter_ranges, calls, oracle,
                    grid_vars, genetic_vars, opt_result, search_request,
                    study_vars, walk_vars, optimize_request,
                    optimization_history, database, task_result >>

NextOptimize ==
    \/ OptimizeStrategy
    \/ SearchBayesian
    \/ SearchGenetic
    \/ SearchGrid
    \/ CompleteOptimization
    \/ FailOptimization

SpecOptimize == Init /\ [][NextOptimize]_vars

(* ------------------------------ BaseAgent ------------------------------ *)
(* The agent runs on one asyncio event loop: a coroutine runs without      *)
(* interruption from one await that suspends it to the next, so each       *)
(* action below is the code between two suspensions.                       *)

\* number of _main_loop coroutines start() creates
MaxLoops == 2
\* number of tasks handed to add_task
MaxTasks == 2

\* a _main_loop coroutine: where it is suspended and the task it executes:
\* "top" created by start() and not run yet, "get" in
\* wait_for(task_queue.get()), "periodic" in _periodic_tasks, "process" in
\* the awaits of _execute_task, "done" after the loop
MainLoop(at, task) == [at |-> at, task |-> task]

\* while self.is_running: the loop goes on to wait for a task, or ends
LoopTest(running) == IF running THEN "get" ELSE "done"

\* start(): nothing when the agent is running, otherwise a new main loop
StartFrom(running, st, loops) ==
    IF running
    THEN [ is_running |-> running, status |-> st, main_loops |-> loops ]
    ELSE [ is_running |-> TRUE, status |-> "idle",
           main_loops |-> Append(loops, MainLoop("top", None)) ]

\* start()
Start ==
    /\ Len(main_loops) < MaxLoops
    /\ LET after == StartFrom(is_running, status, main_loops)
       IN /\ is_running' = after.is_running
          /\ status' = after.status
          /\ main_loops' = after.main_loops
    /\ UNCHANGED << backtest_vars, search_vars, task_queue, current_task,
                    tasks_created >>

\* stop(): the flag, the status, and the queue is drained
Stop ==
    /\ is_running' = FALSE
    /\ status' = "stopped"
    /\ task_queue' = << >>
    /\ UNCHANGED << backtest_vars, search_vars, current_task, main_loops,
                    tasks_created >>

\* add_task(task): the queue is unbounded, put returns at once
AddTask ==
    /\ tasks_created < MaxTasks
    /\ tasks_created' = tasks_created + 1
    /\ task_queue' = Append(task_queue, tasks_created + 1)
    /\ UNCHANGED << backtest_vars, search_vars, status, is_running,
                    current_task, main_loops >>

\* AgentManager._restart_agent when initialize() does not suspend: stop(),
\* initialize(), and start() when the initialisation succeeded;
\* initialize() sets the status to error otherwise
RestartAgent ==
    /\ Len(main_loops) < MaxLoops
    /\ task_queue' = << >>
    /\ \E success \in BOOLEAN :
         IF success
         THEN LET after == StartFrom(FALSE, "stopped", main_loops)
              IN /\ is_running' = after.is_running
                 /\ status' = after.status
                 /\ main_loops' = after.main_loops
         ELSE /\ is_running' = FALSE
              /\ status' = "error"
              /\ UNCHANGED main_loops
    /\ UNCHANGED << backtest_vars, search_vars, current_task, tasks_created >>

\* a created main loop runs for the first time, up to its first await
LoopBegins ==
    /\ \E l \in DOMAIN main_loops :
         /\ main_loops[l].at = "top"
         /\ main_loops' = [ main_loops EXCEPT ![l].at = LoopTest(is_running) ]
    /\ UNCHANGED << backtest_vars, search_vars, status, is_running,
                    task_queue, current_task, tasks_created >>

\* wait_for(task_queue.get()) returns a task and _execute_task runs up to
\* the await of _process_task
GetTask ==
    /\ task_queue # << >>
    /\ \E l \in DOMAIN main_loops :
         /\ main_loops[l].at = "get"
         /\ main_loops' =
              [ main_loops EXCEPT ![l] = MainLoop("process", Head(task_queue)) ]
    /\ task_queue' = Tail(task_queue)
    /\ current_task' = Head(task_queue)
    /\ status' = "working"
    /\ UNCHANGED << backtest_vars, search_vars, is_running, tasks_created >>

\* wait_for times out on the empty queue: _periodic_tasks up to its sleep
GetTimeout ==
    /\ task_queue = << >>
    /\ \E l \in DOMAIN main_loops :
         /\ main_loops[l].at = "get"
         /\ main_loops' = [ main_loops EXCEPT ![l].at = "periodic" ]
    /\ UNCHANGED << backtest_vars, search_vars, status, is_running,
                    task_queue, current_task, tasks_created >>

\* _periodic_tasks returns: continue, and the while test
PeriodicDone ==
    /\ \E l \in DOMAIN main_loops :
         /\ main_loops[l].at = "periodic"
         /\ main_loops' = [ main_loops EXCEPT ![l].at = LoopTest(is_running) ]
    /\ UNCHANGED << backtest_vars, search_vars, status, is_running,
                    task_queue, current_task, tasks_created >>

\* _process_task returned or raised: the rest of _execute_task with its
\* finally block, and the while test
FinishTask ==
    /\ \E l \in DOMAIN main_loops :
         /\ main_loops[l].at = "process"
         /\ main_loops' =
              [ main_loops EXCEPT ![l] = MainLoop(LoopTest(is_running), None) ]
    /\ current_task' = None
    /\ status' = "idle"
    /\ UNCHANGED << backtest_vars, search_vars, is_running, task_queue,
                    tasks_created >>

NextAgent ==
    \/ Start
    \/ Stop
    \/ AddTask
    \/ RestartAgent
    \/ LoopBegins
    \/ GetTask
    \/ GetTimeout
    \/ PeriodicDone
    \/ FinishTask

SpecAgent == Init /\ [][NextAgent]_vars

(* =========================== properties ================================ *)

\* last element of a non-empty sequence
Last(seq) == seq[Len(seq)]

\* a step of the replay loop: one bar is processed
BarStep == pc = "replay" /\ i' = i + 1

\* the entry condition of strategy sn on bar k, on the values the loop read
EntryCondition(sn, closes, inds, k, p) ==
    CASE sn = "rsi_strategy" ->
           NLt(inds[k + 1].rsi, Val(p.oversold_level))
      [] sn = "macd_strategy" ->
           /\ NLe(inds[k].macd, inds[k].signal)
           /\ NGt(inds[k + 1].macd, inds[k + 1].signal)
      [] sn = "ma_crossover" ->
           /\ NLe(RollingMean(closes, p.fast_ma, k - 1),
                  RollingMean(closes, p.slow_ma, k - 1))
           /\ NGt(RollingMean(closes, p.fast_ma, k),
                  RollingMean(closes, p.slow_ma, k))
      [] sn = "bollinger_bands" ->
           NLe(Val(RInt(closes[k + 1])), inds[k + 1].lower)

\* the strategy-specific exit signal of strategy sn on bar k
ExitCondition(sn, closes, inds, k, p) ==
    CASE sn = "rsi_strategy" ->
           NGt(inds[k + 1].rsi, Val(p.overbought_level))
      [] sn = "macd_strategy" ->
           /\ NGe(inds[k].macd, inds[k].signal)
           /\ NLt(inds[k + 1].macd, inds[k + 1].signal)
      [] sn = "ma_crossover" ->
           /\ NGe(RollingMean(closes, p.fast_ma, k - 1),
                  RollingMean(closes, p.slow_ma, k - 1))
           /\ NLt(RollingMean(closes, p.fast_ma, k),
                  RollingMean(closes, p.slow_ma, k))
      [] sn = "bollinger_bands" ->
           NGe(Val(RInt(closes[k + 1])), inds[k + 1].middle)

\* exit_reason as one of signal, stop_loss, take_profit
ExitKind(reason) ==
    CASE reason = "STOP_LOSS" -> "stop_loss"
      [] reason = "TAKE_PROFIT" -> "take_profit"
      [] OTHER -> "signal"

(* C1: in every strategy replay the evaluator holds 0 or 1 open position:  *)
(* a step that opens a position starts from a state with no position, and  *)
(* a step that adds a trade starts from a state with a position and ends   *)
(* with none.                                                              *)
C1_AtMostOnePosition ==
    [][ BarStep =>
          /\ (position' # None /\ position' # position => position = None)
          /\ (Len(trades') > Len(trades) =>
                position # None /\ position' = None) ]_vars

\* a position is opened again after an earlier one was closed
C1_Witness == pc = "replay" /\ position # None /\ trades # << >>

(* C2: capital conservation: after each processed bar the last value of    *)
(* the equity curve is initial_capital plus the pnl of the trades closed   *)
(* so far, and every returned result has                                   *)
(* final_capital = initial_capital + sum of its trades' pnl.               *)
C2_CapitalConservation ==
    /\ equity_curve # << >> =>
         Last(equity_curve) = RAdd(initial_capital, SumPnl(trades))
    /\ \A k \in 1 .. Len(results) :
         results[k].success =>
           results[k].final_capital =
             RAdd(results[k].initial_capital, SumPnl(results[k].trades))

\* a finished backtest whose trades made or lost money
C2_Witness ==
    /\ pc = "done" /\ results # << >> /\ Last(results).success
    /\ SumPnl(Last(results).trades).n # 0

(* C3: equity curve length: for every registered strategy, any parameters  *)
(* and a series of N >= 1 bars, _execute_strategy returns an equity curve  *)
(* of exactly N entries, so every successful result has                    *)
(* len(equity_curve) = data_points.                                        *)
C3_EquityCurveLength ==
    /\ pc = "metrics" => Len(equity_curve) = data_points
    /\ \A k \in 1 .. Len(results) :
         results[k].success =>
           Len(results[k].equity_curve) = results[k].data_points

\* what the exit priority (a) signal, (b) stop loss, (c) take profit closes
\* the open position pos with on bar k, or "none"
ExpectedExit(sn, closes, inds, k, p, pos) ==
    IF ExitCondition(sn, closes, inds, k, p) THEN "signal"
    ELSE IF RLe(RInt(closes[k + 1]), pos.stop_loss) THEN "stop_loss"
    ELSE IF RGe(RInt(closes[k + 1]), pos.take_profit) THEN "take_profit"
    ELSE "none"

(* C4: exit priority: for every strategy, on each bar with an open         *)
(* position the exits are checked in the order strategy signal, stop       *)
(* loss, take profit; the first that matches closes the position and       *)
(* gives the exit reason, and the position stays open when none matches.   *)
C4_ExitPriority ==
    [][ BarStep /\ position # None =>
          LET expected ==
                ExpectedExit(strategy_name, df', ind', i, params, position)
          IN IF expected = "none"
             THEN position' = position /\ trades' = trades
             ELSE /\ position' = None
                  /\ Len(trades') = Len(trades) + 1
                  /\ ExitKind(Last(trades').exit_reason) = expected ]_vars

(* C5: a position still open when the series ends is not force-closed: it  *)
(* has no trade, its unrealized pnl is not in the capital, and the final   *)
(* equity is the capital realized by the trades closed before its entry.   *)
C5_OpenPositionLeftOpen ==
    pc = "done" /\ results # << >> /\ Last(results).success
      /\ position # None =>
        LET r == Last(results)
        IN /\ \A k \in 1 .. Len(r.trades) :
                r.trades[k].exit_time.iso < position.entry_time
           /\ r.final_capital = r.equity_curve[position.entry_time + 1]
           /\ r.final_capital = RAdd(r.initial_capital, SumPnl(r.trades))

\* the series ended with a position open at a price other than the last
\* close, after an earlier trade
C5_Witness ==
    /\ pc = "done" /\ results # << >> /\ Last(results).success
    /\ position # None /\ trades # << >>
    /\ position.entry_price # RInt(Last(df))

(* C6: the equity curve holds realized capital only, one value per         *)
(* processed bar: a bar on which no trade closes repeats the previous      *)
(* value, and a bar on which a trade closes adds exactly that trade's pnl. *)
C6_EquityRealizedOnly ==
    [][ BarStep =>
          /\ Len(equity_curve') = Len(equity_curve) + 1
          /\ Len(equity_curve') = i'
          /\ Len(trades') = Len(trades) =>
               Last(equity_curve') = Last(equity_curve)
          /\ Len(trades') # Len(trades) =>
               /\ Len(trades') = Len(trades) + 1
               /\ Last(equity_curve') =
                    RAdd(Last(equity_curve), Last(trades').pnl) ]_vars

\* a position is held over a bar whose close differs from the entry price
C6_Witness ==
    /\ pc = "replay" /\ position # None
    /\ position.entry_time < i - 1
    /\ position.entry_price # RInt(Last(df))

(* C7: on every entry the position records entry_price = the bar's close,  *)
(* quantity = current realized capital * 0.95 / entry_price, stop_loss =   *)
(* entry_price * (1 - stop_loss) and take_profit = entry_price * (1 +      *)
(* take_profit); on every exit pnl = (exit_price - entry_price) * quantity *)
(* and the capital grows by exactly pnl.                                   *)
C7_EntryAndExitValues ==
    [][ BarStep =>
          /\ position = None /\ position' # None =>
               /\ position'.entry_price = RInt(df'[i + 1])
               /\ RMul(position'.quantity, position'.entry_price) =
                    RMul(Last(equity_curve), Frac(95, 100))
               /\ position'.stop_loss =
                    RSub(position'.entry_price,
                         RMul(position'.entry_price, params.stop_loss))
               /\ position'.take_profit =
                    RAdd(position'.entry_price,
                         RMul(position'.entry_price, params.take_profit))
          /\ Len(trades') = Len(trades) + 1 =>
               LET t == Last(trades')
               IN /\ t.entry_price = position.entry_price
                  /\ t.quantity = position.quantity
                  /\ t.exit_price = RInt(df'[i + 1])
                  /\ t.pnl = RMul(RSub(t.exit_price, t.entry_price),
                                  t.quantity)
                  /\ current_capital' = RAdd(current_capital, t.pnl) ]_vars

\* an entry made with a capital that earlier trades have changed
C7_Witness ==
    /\ pc = "replay" /\ position # None /\ trades # << >>
    /\ current_capital # initial_capital
    /\ position.entry_time = i - 1

(* C8: the ledger is in exit order: during the replay trades are only      *)
(* appended, and the exit bar of each trade is strictly before the exit    *)
(* bar of the next one.                                                    *)
C8_LedgerInExitOrder ==
    [][ /\ pc = "replay" =>
             /\ Len(trades') >= Len(trades)
             /\ SubSeq(trades', 1, Len(trades)) = trades
        /\ \A k \in 1 .. Len(trades') - 1 :
             trades'[k].exit_time.iso < trades'[k + 1].exit_time.iso ]_vars

\* a ledger of two trades
C8_Witness == pc = "done" /\ Len(trades) >= 2

\* the replay ran over every bar and no bar satisfied the entry condition
NoEntryCondition ==
    /\ parameters # None
    /\ Len(df) = data_points
    /\ \A k \in 1 .. data_points - 1 :
         ~ EntryCondition(strategy_name, df, ind, k, params)

C11_EmptyLedgerMetrics ==
    (pc = "calculated" /\ trades = << >>) =>
        /\ "error" \notin DOMAIN results[1]
        /\ results[1].win_rate = RInt(0)
        /\ results[1].profit_factor = RInt(0)
        /\ results[1].sharpe_ratio = RInt(0)
        /\ results[1].max_drawdown = RInt(0)
        /\ results[1].total_return = RInt(0)

\* an empty ledger with a falling equity curve and a zero initial capital
C11_Witness ==
    /\ pc = "calculated" /\ trades = << >>
    /\ Len(equity_curve) = 3 /\ RLt(equity_curve[3], equity_curve[1])
    /\ initial_capital = RInt(0)

\* the last equity value of a result, the initial capital for an empty curve
FinalEquity(r) ==
    IF r.equity_curve # << >> THEN Last(r.equity_curve) ELSE r.initial_capital

\* C12: in every result of run_backtest, metrics.total_return is the final
\* equity minus the initial capital, and metrics.total_return_pct is that
\* difference divided by the initial capital, times 100
C12_TotalReturn ==
    \A k \in 1 .. Len(results) :
        LET r == results[k]
            gain == RSub(FinalEquity(r), r.initial_capital)
        IN r.success =>
            /\ r.metrics.total_return = gain
            /\ r.metrics.total_return_pct
                 = RMul(RDiv(gain, r.initial_capital), RInt(100))

\* a result with trades whose total return is not zero
C12_Witness ==
    \E k \in 1 .. Len(results) :
        /\ results[k].success /\ results[k].trades # << >>
        /\ results[k].metrics.total_return.n # 0

\* gross profit and gross loss of a ledger, as plain sums
GrossProfit(ledger) == SumPnl(SelectSeq(ledger, IsWin))
GrossLoss(ledger) == RNeg(SumPnl(SelectSeq(ledger, IsLoss)))

\* the metrics were computed for a non-empty ledger without an error
Calculated ==
    pc = "calculated" /\ trades # << >> /\ "error" \notin DOMAIN results[1]

\* C13 as stated: profit_factor is gross_profit / |gross_loss| when
\* gross_loss > 0, and the infinity sentinel exactly when gross_loss = 0 and
\* gross_profit > 0; win_rate is the share of trades with pnl > 0
C13_ProfitFactorAsStated ==
    Calculated =>
        /\ GrossLoss(trades).n > 0 =>
              results[1].profit_factor
                = RDiv(GrossProfit(trades), GrossLoss(trades))
        /\ results[1].profit_factor = Infinity
              <=> (GrossLoss(trades).n = 0 /\ GrossProfit(trades).n > 0)
        /\ results[1].win_rate
              = Frac(Cardinality({ k \in 1 .. Len(trades) :
                                     trades[k].pnl.n > 0 }), Len(trades))

\* C13 amended: the infinity sentinel is returned exactly when gross_loss = 0,
\* whether gross_profit is positive or zero; the rest as stated, and
\* _analyze_trades agrees on both numbers
C13_ProfitFactor ==
    /\ Calculated =>
        /\ GrossLoss(trades).n > 0 =>
              results[1].profit_factor
                = RDiv(GrossProfit(trades), GrossLoss(trades))
        /\ results[1].profit_factor = Infinity <=> GrossLoss(trades).n = 0
        /\ results[1].win_rate
              = Frac(Cardinality({ k \in 1 .. Len(trades) :
                                     trades[k].pnl.n > 0 }), Len(trades))
    /\ (pc = "analyzed" /\ trades # << >>) =>
        /\ results[1].profit_factor
             = CalculateMetrics(trades, << RInt(1) >>, RInt(1)).profit_factor
        /\ results[1].win_rate
             = CalculateMetrics(trades, << RInt(1) >>, RInt(1)).win_rate

\* a ledger of flat trades only: no loss and no profit, sentinel returned
C13_Witness ==
    /\ Calculated /\ Len(trades) = 2
    /\ GrossLoss(trades).n = 0 /\ GrossProfit(trades).n = 0
    /\ results[1].profit_factor = Infinity

\* the largest value of curve[1 .. k]
RECURSIVE PeakUpTo(_, _)
PeakUpTo(curve, k) ==
    IF k = 1 THEN curve[1] ELSE RMax(PeakUpTo(curve, k - 1), curve[k])

\* (peak_k - value_k) / peak_k
DrawdownAt(curve, k) ==
    RDiv(RSub(PeakUpTo(curve, k), curve[k]), PeakUpTo(curve, k))

\* C14: max_drawdown is the largest (peak_k - value_k) / peak_k over the
\* positions k of the curve, peak_k being the largest value up to k; it is 0
\* for a non-decreasing curve and never negative
C14_MaxDrawdown ==
    Calculated =>
        LET md == results[1].max_drawdown
            idx == 1 .. Len(equity_curve)
        IN /\ \E k \in idx : md = DrawdownAt(equity_curve, k)
           /\ \A k \in idx : RLe(DrawdownAt(equity_curve, k), md)
           /\ RGe(md, RInt(0))
           /\ (\A k \in idx : k > 1 =>
                   RLe(equity_curve[k - 1], equity_curve[k])) => md = RInt(0)

\* a curve that rises to a new peak and then falls below its first value
C14_Witness ==
    /\ Calculated /\ Len(equity_curve) = 3
    /\ RLt(equity_curve[1], equity_curve[2])
    /\ RLt(equity_curve[3], equity_curve[1])
    /\ results[1].max_drawdown = Frac(2, 3)

(* ------------------------ C15 .. C17: grid search ---------------------- *)

\* the parameters of the search calls made so far, in call order
SearchCalls == SelectSeq(calls, LAMBDA c : c.phase = "search")

\* the number of values a declared range is discretised into
DeclaredSize(param_range) ==
    IF ~IsDict(param_range) THEN 10
    ELSE IF HasType(param_range, "int")
    THEN IF param_range.max < param_range.min THEN 0
         ELSE (param_range.max - param_range.min)
                 \div Get(param_range, "step", 1) + 1
    ELSE IF HasType(param_range, "float")
    THEN IF "step" \in DOMAIN param_range
         THEN Ceil(RDiv(RSub(param_range.max, param_range.min),
                        param_range.step)) + 1
         ELSE 11
    ELSE IF HasType(param_range, "categorical")
    THEN Len(param_range.choices)
    ELSE 1

\* the product of the declared sizes of the parameters from j on
RECURSIVE SizeFrom(_, _)
SizeFrom(ranges, j) ==
    IF j > Len(ranges) THEN 1
    ELSE DeclaredSize(ranges[j].range) * SizeFrom(ranges, j + 1)

\* the value of parameter j in the k-th combination (k from 1) of the
\* Cartesian product read with the last parameter varying fastest
ValueAt(ranges, j, k) ==
    GridValues(ranges[j].range)
        [ (((k - 1) \div SizeFrom(ranges, j + 1))
              % DeclaredSize(ranges[j].range)) + 1 ]

\* the sweep loop is over and nothing was raised before it
SweepDone == opt_pc \in { "returned", "raised" } /\ calls # << >>

C16_GridTruncation ==
    LET ranges == parameter_ranges
        sc == SearchCalls
    IN (opt_pc \in { "sweep", "returned", "raised" }
          /\ SizeFrom(ranges, 1) > MaxCombinations) =>
        /\ Len(sc) <= MaxCombinations
        /\ SweepDone => Len(sc) = MaxCombinations
        /\ \A k \in 1 .. Len(sc) :
             \A j \in 1 .. Len(ranges) :
                sc[k].parameters[ranges[j].name] = ValueAt(ranges, j, k)
        /\ \A k \in 1 .. Len(calls) :
             calls[k].phase = "final" =>
                \/ calls[k].parameters = None
                \/ \E l \in 1 .. Len(sc) :
                      sc[l].parameters = calls[k].parameters
        /\ opt_pc = "returned" =>
             opt_result.total_combinations = MaxCombinations

\* a sweep over 36 x 28 = 1008 combinations returned after 1000 evaluations
C16_Witness ==
    /\ opt_pc = "returned" /\ SizeFrom(parameter_ranges, 1) = 1008
    /\ Len(SearchCalls) = 1000
    /\ SearchCalls[1000].parameters = [a |-> 36, b |-> 20]

\* v lies in the declared [min, max] of the range or is one of its choices;
\* a dict range of an unknown type declares nothing
InDeclared(param_range, v) ==
    IF ~IsDict(param_range)
    THEN RLe(param_range.bounds[1], v) /\ RLe(v, param_range.bounds[2])
    ELSE IF HasType(param_range, "int")
    THEN param_range.min <= v /\ v <= param_range.max
    ELSE IF HasType(param_range, "float")
    THEN RLe(param_range.min, v) /\ RLe(v, param_range.max)
    ELSE IF HasType(param_range, "categorical")
    THEN \E c \in 1 .. Len(param_range.choices) : param_range.choices[c] = v
    ELSE TRUE

\* C17: every parameter value that a search passes to the Backtest Runner
\* lies within the declared [min, max] of its parameter or is one of its
\* declared choices
C17_WithinDeclaredBounds ==
    \A k \in 1 .. Len(calls) :
        calls[k].parameters # None =>
            \A j \in 1 .. Len(parameter_ranges) :
                InDeclared(parameter_ranges[j].range,
                           calls[k].parameters[parameter_ranges[j].name])

(* ---------------------- C18 .. C20: genetic search -------------------- *)

\* C18: best_fitness never decreases: after every step of the search, and so
\* after every generation, it is at least what it was before
C18_BestFitnessMonotone ==
    [][ ~Greater(best_fitness, best_fitness') ]_vars

\* a second generation evaluated in full below the best of the first one
C18_Witness ==
    /\ opt_pc = "evaluate" /\ generation = 1
    /\ Len(fitness_scores) = population_size
    /\ \A k \in 1 .. Len(fitness_scores) :
          Greater(best_fitness, fitness_scores[k])

\* the fitness a backtest outcome stands for
FitnessOf(c) ==
    IF c.outcome.kind = "success" THEN c.outcome.value ELSE NegInfinity

\* C19: the genetic search returns the best individual ever seen: the
\* returned best_fitness is the largest fitness over every individual
\* evaluated in every generation, and best_parameters is the parameter vector
\* of an evaluation that obtained it
C19_BestEverSeen ==
    (opt_pc = "returned" /\ opt_result.method = "genetic_optimization") =>
        LET sc == SearchCalls
        IN /\ \A k \in 1 .. Len(sc) :
                ~Greater(FitnessOf(sc[k]), opt_result.best_fitness)
           /\ IF \E k \in 1 .. Len(sc) : FitnessOf(sc[k]) # NegInfinity
              THEN \E k \in 1 .. Len(sc) :
                      /\ FitnessOf(sc[k]) = opt_result.best_fitness
                      /\ sc[k].parameters = opt_result.best_parameters
              ELSE /\ opt_result.best_fitness = NegInfinity
                   /\ opt_result.best_parameters = None

\* a search of two generations returned a best that only the first
\* generation contained
C19_Witness ==
    /\ opt_pc = "returned" /\ opt_result.method = "genetic_optimization"
    /\ generations = 2 /\ Len(SearchCalls) = 2 * population_size
    /\ \A k \in 1 .. Len(SearchCalls) :
          SearchCalls[k].parameters = opt_result.best_parameters
             => k <= population_size
    /\ opt_result.best_fitness = Frac(1, 2)

\* what one pass of tournament selection, crossover and mutation can produce
Offspring ==
    LET parents == TournamentSelection(population, fitness_scores)
    IN UNION { Mutate(child, parameter_ranges) :
                 child \in UNION { Crossover(parent1, parent2) :
                                     parent1 \in parents,
                                     parent2 \in parents } }

\* C20: at each generation boundary the floor(P/4) individuals of highest
\* fitness are copied unchanged into the next generation, which again has
\* exactly P individuals, the others coming from tournament selection,
\* crossover and mutation
C20_EliteCarryOver ==
    [][ (opt_pc = "breed" /\ opt_pc' = "evaluate") =>
          LET P == population_size
              e == P \div 4
          IN /\ Len(population') = P
             /\ \E idx \in [1 .. e -> 1 .. P] :
                   /\ \A k, l \in 1 .. e : k # l => idx[k] # idx[l]
                   /\ \A k \in 1 .. e : population'[k] = population[idx[k]]
                   /\ \A k \in 1 .. e, m \in 1 .. P :
                         (\A l \in 1 .. e : idx[l] # m)
                            => ~Greater(fitness_scores[m],
                                        fitness_scores[idx[k]])
             /\ LET offspring == Offspring
                IN \A k \in (e + 1) .. P : population'[k] \in offspring
      ]_vars

\* a second generation of four whose first member is the one individual of
\* the first generation that scored 1, the first of that generation having
\* failed
C20_Witness ==
    /\ opt_pc = "evaluate" /\ generation = 1 /\ population_size = 4
    /\ Len(calls) = 4 /\ Len(population) = 4
    /\ calls[1].outcome = Failed
    /\ calls[4].outcome = Succeeded(Frac(1, 2))
    /\ \A k \in 1 .. 3 : calls[k].outcome # Succeeded(Frac(1, 2))
    /\ population[1] = calls[4].parameters

(* ---------------------- C21 .. C24: the searches ----------------------- *)

\* the worst value a study of the given direction can be told
Worst(direction) == IF direction = "maximize" THEN NegInfinity ELSE Infinity

\* C21: in a Bayesian search every trial whose backtest failed or whose
\* evaluation raised is told to the study, once, with the worst value of the
\* study's direction
C21_FailedTrialToldWorst ==
    study # None =>
       LET sc == SearchCalls
       IN \A k \in 1 .. Len(study.trials) :
             sc[k].outcome.kind # "success"
                => study.trials[k].told = << Worst(study.direction) >>

C23_FailureDoesNotAbort ==
    [][ (opt_pc \in { "sweep", "evaluate", "trial" } /\ opt_pc' = "raised")
           => /\ Len(calls') > Len(calls)
              /\ Last(calls').phase = "final" ]_vars

\* C24: a search for a strategy that is not in the registry evaluates no
\* candidate and returns no result
C24_UnknownStrategyAborts ==
    (search_request # None
       /\ search_request.strategy_name \notin DOMAIN strategies)
          => calls = << >> /\ opt_result = None

(* ------------------ C25, C26, C29: walk-forward analysis --------------- *)

\* floor((D - W) / S) + 1 for a range of D days when D >= W, otherwise 0
ExpectedWindows(req) ==
    LET D == req.end_date.date - req.start_date.date
    IN IF D >= req.window_size
       THEN (D - req.window_size) \div req.step_size + 1
       ELSE 0

\* C25: a walk-forward analysis over D days that returns has run the backtest
\* for floor((D - W) / S) + 1 windows when D >= W and for none otherwise;
\* window k covers [start + k*S, start + k*S + W], none ends after the end of
\* the range, and all are run with the parameters of the request
C25_WalkForwardWindows ==
    window_request # None =>
       LET start == window_request.start_date.date
           W == window_request.window_size
           S == window_request.step_size
       IN /\ \A k \in 1 .. Len(window_calls) :
                /\ window_calls[k].start_date = DateString(start + (k - 1) * S)
                /\ window_calls[k].end_date =
                      DateString(start + (k - 1) * S + W)
                /\ window_calls[k].end_date.date
                      <= window_request.end_date.date
                /\ window_calls[k].parameters = window_request.parameters
                /\ window_calls[k].strategy_name
                      = window_request.strategy_name
          /\ Len(window_calls) <= ExpectedWindows(window_request)
          /\ opt_pc = "returned"
                => Len(window_calls) = ExpectedWindows(window_request)

\* an analysis returned after several windows, one of them failed, over a
\* range whose last days hold no further window
C25_Witness ==
    /\ window_request # None /\ opt_pc = "returned"
    /\ Len(window_calls) >= 2
    /\ \E k \in 1 .. Len(window_calls) :
          window_calls[k].outcome.kind = "failure"
    /\ (window_request.end_date.date - window_request.window_size)
          % window_request.step_size # 0
    /\ window_request.parameters # EmptyDict

\* the statistics the rubric is stated for
StatsInDomain(stats) ==
    /\ stats # EmptyDict
    /\ RGe(stats.win_rate, RInt(0)) /\ RLe(stats.win_rate, RInt(1))
    /\ RGe(stats.max_drawdown, RInt(0))

\* lo <= x <= hi
Within(x, lo, hi) == RGe(x, RInt(lo)) /\ RLe(x, RInt(hi))

\* C26: for win_rate in [0, 1] and max_drawdown >= 0 the robustness score is
\* within 0 .. 100, with the win-rate component within 0 .. 30, the Sharpe
\* consistency within 0 .. 25, the drawdown control within 0 .. 25 and the
\* average-return component within 0 .. 20; without statistics the score is 0
C26_RobustnessScoreRange ==
    opt_pc = "scored" =>
       /\ aggregate_stats = EmptyDict => opt_result.robustness_score = RInt(0)
       /\ StatsInDomain(aggregate_stats) =>
             /\ Within(opt_result.robustness_score, 0, 100)
             /\ Within(WinRatePoints(aggregate_stats), 0, 30)
             /\ Within(SharpeConsistencyPoints(aggregate_stats), 0, 25)
             /\ Within(DrawdownPoints(aggregate_stats), 0, 25)
             /\ Within(ReturnPoints(aggregate_stats), 0, 20)
             /\ RLe(opt_result.robustness_score,
                    RAdd(RAdd(WinRatePoints(aggregate_stats),
                              SharpeConsistencyPoints(aggregate_stats)),
                         RAdd(DrawdownPoints(aggregate_stats),
                              ReturnPoints(aggregate_stats))))

\* statistics with a drawdown above 1 were scored: the drawdown control gave
\* nothing and the other three components gave the score
C26_Witness ==
    /\ opt_pc = "scored" /\ StatsInDomain(aggregate_stats)
    /\ RGt(aggregate_stats.max_drawdown, RInt(1))
    /\ RGt(opt_result.robustness_score, RInt(70))

\* C29: for a non-zero average Sharpe the Sharpe-consistency component is 25
\* when the Sharpe standard deviation is 0, and it is not larger for a larger
\* standard deviation
C29_SharpeConsistency ==
    (opt_pc = "scored" /\ aggregate_stats # EmptyDict
       /\ aggregate_stats.average_sharpe # RInt(0))
       => /\ aggregate_stats.sharpe_std = RInt(0)
                => SharpeConsistencyPoints(aggregate_stats) = RInt(25)
          /\ \A other \in StatsInputs \ { EmptyDict } :
                (other.average_sharpe = aggregate_stats.average_sharpe
                   /\ RGe(other.sharpe_std, aggregate_stats.sharpe_std))
                   => RLe(SharpeConsistencyPoints(other),
                          SharpeConsistencyPoints(aggregate_stats))

(* ---------------------- C27: the persistence sink ---------------------- *)

\* C27: when the search has returned, _optimize_strategy marks the
\* optimization completed, records it in optimization_history and returns
\* the results of the search, whether the save stored the row or raised
C27_SaveFailureContained ==
    [][ (agent_pc = "running" /\ opt_pc = "returned")
           => LET id == OptimizationId(optimize_request)
              IN /\ agent_pc' = "returned"
                 /\ current_optimizations'[id].status = "completed"
                 /\ id \in DOMAIN optimization_history'
                 /\ optimization_history'[id].status = "completed"
                 /\ optimization_history'[id].results = opt_result
                 /\ task_result'.results = opt_result ]_vars

\* an optimization returned its results although nothing was stored
C27_Witness ==
    /\ agent_pc = "returned" /\ database = << >>
    /\ task_result # None /\ task_result.results = opt_result
    /\ opt_result.best_parameters # None

(* --------------------------- C28: the warm-up -------------------------- *)

\* the indicator read at bar k is undefined; the MACD and moving-average
\* strategies read the values of bar k and of bar k - 1
IndicatorUndefined(sn, closes, values, k, p) ==
    CASE sn = "rsi_strategy" -> values[k + 1].rsi = NaN
      [] sn = "macd_strategy" ->
            \E b \in { k, k + 1 } :
               values[b].macd = NaN \/ values[b].signal = NaN
      [] sn = "ma_crossover" ->
            \E b \in { k - 1, k } :
               \/ RollingMean(closes, p.fast_ma, b) = NaN
               \/ RollingMean(closes, p.slow_ma, b) = NaN
      [] OTHER -> values[k + 1].lower = NaN \/ values[k + 1].middle = NaN

\* C28: a bar whose indicator is undefined (for the crossover strategies: that
\* bar's or the previous bar's) neither opens nor closes a position and adds
\* the unchanged capital to the equity curve; a replay in which every bar is
\* undefined returns no trade and a constant equity curve
C28_WarmUpHolds ==
    [][ /\ (BarStep /\ IndicatorUndefined(strategy_name, df', ind', i, params))
           => /\ position' = position
              /\ trades' = trades
              /\ current_capital' = current_capital
              /\ Last(equity_curve') = current_capital
        /\ (pc = "replay" /\ pc' = "metrics"
              /\ \A k \in 1 .. data_points - 1 :
                    IndicatorUndefined(strategy_name, df, ind, k, params))
           => /\ trades' = << >>
              /\ \A k \in 1 .. Len(equity_curve') :
                    equity_curve'[k] = initial_capital ]_vars

\* a replay of at least three bars ended with the indicator undefined on every
\* bar: no trade, an equity curve of one point per bar
C28_Witness ==
    /\ pc = "metrics" /\ params # None /\ data_points >= 3
    /\ Len(df) = data_points
    /\ \A k \in 1 .. data_points - 1 :
          IndicatorUndefined(strategy_name, df, ind, k, params)
    /\ trades = << >> /\ Len(equity_curve) = data_points

(* ------------------- C30: the best trial in the history ---------------- *)

\* the history a search returned: trial_history of the Bayesian search,
\* top_results of the grid search
ReturnedHistory ==
    IF opt_result.method = "bayesian_optimization"
    THEN opt_result.trial_history
    ELSE opt_result.top_results

\* C30: when at least one candidate was evaluated successfully, the history a
\* grid or Bayesian search returns has an entry with the returned best value
\* and the returned best parameters
C30_BestInHistory ==
    (opt_pc = "returned"
       /\ opt_result.method \in { "bayesian_optimization", "parameter_sweep" }
       /\ \E k \in 1 .. Len(calls) :
             calls[k].phase = "search" /\ calls[k].outcome.kind = "success")
       => \E k \in 1 .. Len(ReturnedHistory) :
             /\ ReturnedHistory[k].value = opt_result.best_value
             /\ ReturnedHistory[k].parameters = opt_result.best_parameters

(* ------------------- C31 .. C32: the trade list, capital ---------------- *)

\* the trades of ledger are disjoint in time: each is entered strictly
\* before it is exited, and exited strictly before the next is entered
DisjointInTime(ledger) ==
    /\ \A k \in 1 .. Len(ledger) :
         ledger[k].entry_time.iso < ledger[k].exit_time.iso
    /\ \A k \in 1 .. Len(ledger) - 1 :
         ledger[k].exit_time.iso < ledger[k + 1].entry_time.iso

(* C31: entry and exit never happen on the same bar: no bar of the replay  *)
(* both opens a position and closes one, a position opened on bar i is     *)
(* closed on bar i+1 at the earliest, a position is opened on the bar      *)
(* after a close at the earliest, and so the trades of the ledger and of   *)
(* every result satisfy entry_bar_k < exit_bar_k < entry_bar_(k+1).        *)
C31_NoSameBarEntryAndExit ==
    /\ DisjointInTime(trades)
    /\ \A k \in 1 .. Len(results) :
         results[k].success => DisjointInTime(results[k].trades)
    /\ pc = "replay" /\ position # None =>
         /\ position.entry_time < i
         /\ trades # << >> => Last(trades).exit_time.iso < position.entry_time

\* a trade closed on the bar after its entry, and the next position opened
\* on the bar after that close
C31_Witness ==
    /\ pc = "replay" /\ position # None /\ trades # << >>
    /\ Last(trades).exit_time.iso = Last(trades).entry_time.iso + 1
    /\ position.entry_time = Last(trades).exit_time.iso + 1

\* every value of curve is > 0 and more than 5% of the value before it
StaysPositive(curve) ==
    /\ \A k \in 1 .. Len(curve) : RGt(curve[k], RInt(0))
    /\ \A k \in 1 .. Len(curve) - 1 :
         RGt(curve[k + 1], RMul(curve[k], Frac(5, 100)))

(* C32: realized capital stays strictly positive: with initial_capital > 0 *)
(* and closes > 0 every equity-curve value is > 0, one trade loses less    *)
(* than 95% of the capital at its entry, and every result has              *)
(* max_drawdown in [0, 1).                                                 *)
C32_CapitalStaysPositive ==
    /\ StaysPositive(equity_curve)
    /\ pc = "replay" => current_capital = Last(equity_curve)
    /\ \A k \in 1 .. Len(results) :
         results[k].success =>
           /\ StaysPositive(results[k].equity_curve)
           /\ RGe(results[k].metrics.max_drawdown, RInt(0))
           /\ RLt(results[k].metrics.max_drawdown, RInt(1))

\* a result with a trade that lost more than 90% of the capital
C32_Witness ==
    /\ pc = "done" /\ results # << >> /\ Last(results).success
    /\ RGt(Last(results).metrics.max_drawdown, Frac(90, 100))
    /\ \E k \in 1 .. Len(trades) :
         RLt(trades[k].pnl, RNeg(RMul(initial_capital, Frac(90, 100))))

(* ----------------- C33 .. C34: the direction of the objective ----------- *)

\* value a is at least as good as value b for the objective: lower is
\* better for max_drawdown, higher is better for the other objectives
AtLeastAsGood(objective, a, b) ==
    IF objective = "max_drawdown" THEN RLe(a, b) ELSE RGe(a, b)

(* C33: the direction of the objective: the best_parameters a search       *)
(* returns are a candidate whose objective value is the smallest among the *)
(* successfully evaluated candidates when the objective is max_drawdown    *)
(* and the largest for the other objectives.                               *)
C33_ObjectiveDirection ==
    opt_pc = "returned" /\ opt_result.best_parameters # None =>
      LET sc == SearchCalls
          ok == { k \in 1 .. Len(sc) : sc[k].outcome.kind = "success" }
      IN \E b \in ok :
           /\ sc[b].parameters = opt_result.best_parameters
           /\ \A k \in ok :
                AtLeastAsGood(search_request.objective,
                              sc[b].outcome.value, sc[k].outcome.value)

\* value a is better than value b for a study of the given direction
BetterInDirection(direction, a, b) ==
    IF direction = "maximize" THEN Greater(a, b) ELSE Greater(b, a)

\* the values told to the study so far
ToldValues ==
    { study.trials[k].told[1] :
        k \in { j \in 1 .. Len(study.trials) : study.trials[j].told # << >> } }

(* C34: in Bayesian search the direction given to the study agrees with    *)
(* the comparison that selects best_value: of two values told to the       *)
(* study, the one the loop treats as better (the greater one) is also the  *)
(* better one in the direction the study optimises.                        *)
C34_DirectionAgrees ==
    study # None =>
      \A a, b \in ToldValues :
         Better(a, b) => BetterInDirection(study.direction, a, b)

(* ------------------ C35: the genetic search completes ------------------- *)

\* C35: the genetic search ends with an exception only when a run_backtest
\* call raised: failed backtests (fitness -inf), even of a whole
\* generation, and any population_size >= 1 let it run all its generations
\* and return a result
C35_GeneticCompletes ==
    opt_pc = "raised" =>
      \E k \in 1 .. Len(calls) : calls[k].outcome.kind = "raise"

(* -------------------- C36: walk-forward terminates ---------------------- *)

\* C36: a walk-forward analysis that has started terminates, whatever the
\* date range, window_size and step_size of the request: it returns its
\* result or ends with an exception
C36_WalkForwardTerminates ==
    (opt_pc = "window") ~> (opt_pc \in { "returned", "raised" })

(* --------------------- C37: grid search best tracking ------------------- *)

\* C37: at every point of the sweep best_value is the largest objective
\* value of the combinations evaluated successfully so far and
\* best_parameters is the earliest combination, in generation order, that
\* attains it; with no success so far there is no best, and a combination
\* whose backtest failed is never the best
C37_GridBestTracking ==
    opt_pc = "sweep" \/ (opt_pc = "returned" /\ param_combinations # << >>) =>
      LET sc == SearchCalls
          ok == { k \in 1 .. Len(sc) : sc[k].outcome.kind = "success" }
      IN IF ok = { }
         THEN best_value = NegInfinity /\ best_params = None
         ELSE /\ \A k \in ok : ~Greater(sc[k].outcome.value, best_value)
              /\ \E b \in ok :
                   /\ sc[b].outcome.value = best_value
                   /\ sc[b].parameters = best_params
                   /\ \A j \in 1 .. b - 1 :
                        j \in ok => sc[j].outcome.value # best_value

\* a sweep in which the first combination failed, the second gave the best
\* value and a later one gave the same value again
C37_Witness ==
    /\ opt_pc = "sweep" /\ Len(calls) >= 3
    /\ calls[1].outcome.kind = "failure"
    /\ calls[2].outcome = Succeeded(Frac(1, 2))
    /\ calls[3].outcome = Succeeded(Frac(1, 2))
    /\ best_params = calls[2].parameters

(* ------------------- C38: one task at a time per agent ------------------ *)

\* the main loops suspended inside _process_task
Executing == { l \in DOMAIN main_loops : main_loops[l].at = "process" }

\* the main loops taking from task_queue: waiting in get, or executing the
\* task they took
Consuming ==
    { l \in DOMAIN main_loops : main_loops[l].at \in { "get", "process" } }

\* C38: under every interleaving of start(), stop(), add_task(), the
\* manager's restart and the main loops, at most one task of the agent is
\* being executed, current_task is that task, and at most one main loop
\* consumes the task queue
C38_OneTaskAtATime ==
    /\ Cardinality(Executing) <= 1
    /\ \A l \in Executing : current_task = main_loops[l].task
    /\ Cardinality(Consuming) <= 1

(* ----------------------- C39: stopped stays stopped --------------------- *)

\* a step taken while the agent is stopped that is not a start: stop() set
\* the status and the flag, and neither start() nor the manager's restart
\* is the step
StepWhileStopped ==
    /\ status = "stopped" /\ ~is_running
    /\ ~Start /\ ~RestartAgent

\* a main loop enters _execute_task in the step
TaskBegins ==
    \E l \in DOMAIN main_loops :
       main_loops[l].at # "process" /\ main_loops'[l].at = "process"

\* C39: from stop() until the next start() the status stays STOPPED, no
\* task that was pending at the stop comes back into the queue, and no
\* task begins execution, whether or not a task was executing at the stop
C39_StoppedStaysStopped ==
    [][ StepWhileStopped =>
          /\ status' = "stopped"
          /\ \A q \in DOMAIN task_queue' :
                \/ task_queue'[q] > tasks_created
                \/ \E r \in DOMAIN task_queue : task_queue[r] = task_queue'[q]
          /\ ~TaskBegins ]_vars

====
